---- MODULE Spec2Model ----
(***************************************************************************)
(* Model of the tarot bot: the dialogue orchestrator (handlers.py,         *)
(* llm_integration.py), the staged LLM session (llm_session.py), the       *)
(* conversation context (openrouter_client.py MessageContext) and the      *)
(* single-request session variant (llm_session_fixed.py).                  *)
(*                                                                         *)
(* Texts are sequences of tokens (strings); a token stands for a word, a   *)
(* marker or a template name, and the text is the tokens joined by one     *)
(* blank.  Updates are dispatched one at a time (bot.py builds the         *)
(* Application without concurrent_updates), so a handler runs to its end   *)
(* before the next update is taken: one action per handler.                *)
(*                                                                         *)
(* Environment taken as working: Telegram sends, the progress bar, the     *)
(* prompt templates on disk, the spread log, and the construction of the   *)
(* LLMSession at llm_integration.py:160.                                   *)
(***************************************************************************)
EXTENDS Naturals, Integers, Sequences, FiniteSets, TLC

VARIABLES
    user_states,   \* simple_state._user_states: chat -> [state, data]
    users,         \* user_manager: data/users.json, user id -> record
    sessions,      \* the LLMSession object kept under data['llm_session']
    journal,       \* per chat: what the handling of the last update did
    config,        \* config.json: features.use_magic_numbers
    mctx,          \* a MessageContext driven through its public methods
    fixed,         \* a FixedLLMSession driven through its public methods
    transport,     \* a call of openrouter_client.send_request and its attempts
    extractor,     \* a session that is given a reply to extract questions from
    cleaner,       \* a session that is given a final reply to clean
    selector,      \* the random module's generator and the draws made with it
    catalog,       \* a TarotDeck, and what its callers hold of it
    readings,      \* the sessions of the chats and the contexts they refer to
    application,   \* the updates of the Application and the handlers at work
    state_calls,   \* calls of the functions of simple_state, one at a time
    credit_calls,  \* calls of user_manager.use_credit, one per thread
    feedback       \* a delivered reading, its log record and its feedback

vars == <<user_states, users, sessions, journal, config, mctx, fixed,
          transport, extractor, cleaner, selector, catalog, readings,
          application, state_calls,
                   credit_calls, feedback>>

----------------------------------------------------------------------------
(* Bounds of the model *)

MaxDeliveries == 2     \* readings delivered to the chat that gives feedback
NumThreads == 2        \* threads that call use_credit
NumChats == 2          \* chats 1..NumChats, one Telegram user per chat
MaxReadings == 1       \* readings started, all chats together
MaxCtxLen == 3         \* messages in the directly driven MessageContext
MaxRandomStates == 8   \* states of the random generator that are told apart
MaxSessions == 3       \* LLMSession objects made, all chats together
MaxUpdates == 3        \* updates received by the Application

Chats == 1..NumChats

----------------------------------------------------------------------------
(* Texts *)

NoText == <<>>

\* character length of one token; words not listed count 5 characters
TokLen(t) ==
    CASE t = "transformation"  -> 14
      [] t = "possibilities"   -> 13
      [] t = "relationships"   -> 13
      [] t = "understanding"   -> 13
      [] t = "ok"              -> 2
      [] t = "<b>"             -> 3
      [] t = "</b>"            -> 4
      [] t = "[INTERPRETATION_START]" -> 22
      [] t = "[INTERPRETATION_END]"   -> 20
      [] t = "\n\n"            -> 2
      [] t = "\n"              -> 1
      [] t = ""                -> 0
      [] OTHER                 -> 5

RECURSIVE SumLen(_)
SumLen(s) == IF s = <<>> THEN 0 ELSE TokLen(Head(s)) + SumLen(Tail(s))

\* len(text): the tokens and the blanks between them
CharLen(s) == IF s = <<>> THEN 0 ELSE SumLen(s) + (Len(s) - 1)

RECURSIVE SelectTok(_, _)
SelectTok(s, keep) ==
    IF s = <<>> THEN <<>>
    ELSE IF Head(s) \in keep THEN <<Head(s)>> \o SelectTok(Tail(s), keep)
         ELSE SelectTok(Tail(s), keep)

RECURSIVE DropTok(_, _)
DropTok(s, drop) ==
    IF s = <<>> THEN <<>>
    ELSE IF Head(s) \in drop THEN DropTok(Tail(s), drop)
         ELSE <<Head(s)>> \o DropTok(Tail(s), drop)

Range(s) == {s[i] : i \in 1..Len(s)}

IsPrefix(s, t) == Len(s) <= Len(t) /\ SubSeq(t, 1, Len(s)) = s

Take(s, n) == SubSeq(s, 1, IF n < Len(s) THEN n ELSE Len(s))

----------------------------------------------------------------------------
(* openrouter_client.MessageContext *)

Msg(role, text) == [role |-> role, text |-> text]

MessageContext(task_prompt) == [task_prompt |-> task_prompt, messages |-> <<>>]

add_user_message(ctx, text) ==
    LET first == IF ctx.task_prompt # NoText /\ Len(ctx.messages) = 0
                 THEN <<Msg("system", ctx.task_prompt)>>
                 ELSE <<>>
    IN [ctx EXCEPT !.messages = (@ \o first) \o <<Msg("user", text)>>]

add_assistant_message(ctx, text) ==
    [ctx EXCEPT !.messages = Append(@, Msg("assistant", text))]

add_system_message(ctx, text) ==
    [ctx EXCEPT !.messages = Append(@, Msg("system", text))]

get_message_history(ctx) == ctx.messages

clear(ctx) == [ctx EXCEPT !.messages = <<>>]

update_task_prompt(ctx, new_task_prompt) ==
    [ctx EXCEPT !.task_prompt = new_task_prompt,
                !.messages = IF Len(@) > 0
                             THEN Append(@, Msg("system", new_task_prompt))
                             ELSE @]

----------------------------------------------------------------------------
(* prompt_manager.PromptManager: the templates are files; a prompt is its  *)
(* template name followed by what is substituted into it                    *)

AgeText(age) ==
    CASE age = 25 -> "25" [] age = 34 -> "34" [] age = 40 -> "40" [] OTHER -> "age"

get_system_persona(name, age) == <<"01_system_persona.md", name, AgeText(age)>>

get_spread_context(spread_type, selected_cards, positions) ==
    <<"02_context.md", spread_type>> \o selected_cards

get_psychological_analysis_prompt(user_answers) ==
    <<"03_psychological_analysis_questions.md">> \o user_answers

get_context_analysis_prompt == <<"04_context_analysis_and_card_interpretation.md">>

get_synthesis_prompt == <<"05_deep_synthesis_and_story_planning.md">>

get_final_response_prompt == <<"06_final_user_response.md">>

\* zip(questions, answers): stops at the shorter list
RECURSIVE format_user_answers(_, _)
format_user_answers(questions, answers) ==
    IF questions = <<>> \/ answers = <<>> THEN <<>>
    ELSE <<"Vopros:">> \o Head(questions) \o <<"Otvet:", Head(answers)>>
         \o format_user_answers(Tail(questions), Tail(answers))

----------------------------------------------------------------------------
(* llm_session.LLMSession: extraction of the clarifying questions *)

QLabels == {"Q1:", "Q2:", "Q3:", "Q4:", "Q5:", "Q6:"}       \* Q\d+:
NumLabels == {"1.", "2.", "3."}                             \* \d+\.
VoprosLabels == {"Vopros 1:", "Vopros 2:"}                  \* the pattern for "Vopros N:" (Cyrillic in the source)
Bullets == {"-"}                                            \* the bullet class of the third pattern
Blank == {"\n", "\n\n"}                                     \* newline tokens
Space == Blank \cup {""}                                    \* whitespace tokens; "" is what a removed tag leaves
QMarkToks == {"what_troubles_you_now?", "what_do_you_expect?",
              "who_is_involved_here?", "why?", "really?",
              "what_next?", "what_now?",
              "question_of_500?", "question_of_501?"}       \* tokens ending in '?'

QTokLen(t) ==
    CASE t = "what_troubles_you_now?" -> 22
      [] t = "what_do_you_expect?"    -> 19
      [] t = "who_is_involved_here?"  -> 21
      [] t = "tell_me_about_it"       -> 16
      [] t = "why?"                   -> 4
      [] t = "what_next?"             -> 10
      [] t = "what_now?"              -> 9
      [] t = "question_of_500?"       -> 500
      [] t = "question_of_501?"       -> 501
      [] t = "\n"                     -> 1
      [] OTHER                        -> TokLen(t)

RECURSIVE QSumLen(_)
QSumLen(s) == IF s = <<>> THEN 0 ELSE QTokLen(Head(s)) + QSumLen(Tail(s))

QCharLen(s) == IF s = <<>> THEN 0 ELSE QSumLen(s) + (Len(s) - 1)

\* str.strip(): whitespace at both ends goes
RECURSIVE LStrip(_)
LStrip(s) == IF s # <<>> /\ Head(s) \in Space THEN LStrip(Tail(s)) ELSE s

RECURSIVE RStrip(_)
RStrip(s) ==
    IF s # <<>> /\ s[Len(s)] \in Space THEN RStrip(SubSeq(s, 1, Len(s) - 1)) ELSE s

Strip(s) == RStrip(LStrip(s))

\* index of the first token of s from position i on that lies in set, 0 if none
RECURSIVE FirstIn(_, _, _)
FirstIn(s, set, i) ==
    IF i > Len(s) THEN 0
    ELSE IF s[i] \in set THEN i ELSE FirstIn(s, set, i + 1)

every_question_valid(question) == TRUE

_validate_question(question) ==
    /\ question # <<>>
    /\ QCharLen(Strip(question)) >= 10
    /\ QCharLen(question) <= 500
    /\ Range(question) \cap QMarkToks # {}

\* re.findall(r'LABEL\s*(.+?)(?=LABEL|$)', text, DOTALL): after a label the
\* group takes at least one token and runs up to the next label or the end
RECURSIVE LabelledSegments(_, _)
LabelledSegments(s, labels) ==
    LET cut(rest, j) ==
            <<IF j = 0 THEN rest ELSE SubSeq(rest, 1, j - 1)>>
            \o LabelledSegments(IF j = 0 THEN <<>> ELSE SubSeq(rest, j, Len(rest)), labels)
        group(rest) == cut(rest, IF rest = <<>> THEN 0 ELSE FirstIn(rest, labels, 2))
        label(i) == IF i = 0 THEN <<>> ELSE group(LStrip(SubSeq(s, i + 1, Len(s))))
    IN label(FirstIn(s, labels, 1))

\* [q.strip() for q in matches if self._validate_question(q.strip())]
RECURSIVE ValidStripped(_)
ValidStripped(cands) ==
    IF cands = <<>> THEN <<>>
    ELSE (IF _validate_question(Strip(Head(cands))) THEN <<Strip(Head(cands))>> ELSE <<>>)
         \o ValidStripped(Tail(cands))

\* re.search(r'OPEN(.*?)CLOSE', text, DOTALL): the tokens between the first
\* OPEN that has a CLOSE after it and the first CLOSE after it
HasBlock(s, open, close) ==
    LET i == FirstIn(s, {open}, 1)
    IN i # 0 /\ FirstIn(s, {close}, i + 1) # 0

BlockOf(s, open, close) ==
    LET i == FirstIn(s, {open}, 1)
        j == FirstIn(s, {close}, i + 1)
    IN SubSeq(s, i + 1, j - 1)

\* text.split('\n'), each line stripped
RECURSIVE SplitLines(_)
SplitLines(s) ==
    LET i == FirstIn(s, Blank, 1)
    IN IF i = 0 THEN <<s>>
       ELSE <<SubSeq(s, 1, i - 1)>> \o SplitLines(SubSeq(s, i + 1, Len(s)))

\* the lines "N. text" of the legacy block: each line stripped, the label
\* and the whitespace after it removed
RECURSIVE NumberedLines(_)
NumberedLines(lines) ==
    LET numbered(line) ==
            IF line # <<>> /\ Head(line) \in NumLabels
                           /\ _validate_question(LStrip(Tail(line)))
            THEN <<LStrip(Tail(line))>> ELSE <<>>
    IN IF lines = <<>> THEN <<>>
       ELSE numbered(Strip(Head(lines))) \o NumberedLines(Tail(lines))

\* re.findall(r'LABEL\s*(.+?\?)(?=LABEL|$)', text, DOTALL): a '?' is followed
\* by a blank unless it ends the text, so the one match runs from the first
\* label to the end of a text that ends in '?'
UpToFinalQMark(s, labels) ==
    LET i == FirstIn(s, labels, 1)
    IN IF i # 0 /\ i < Len(s) /\ s[Len(s)] \in QMarkToks
       THEN <<SubSeq(s, i + 1, Len(s))>>
       ELSE <<>>

VoprosMatches(s) ==
    LET i == FirstIn(s, VoprosLabels, 1)
    IN IF i # 0 /\ i < Len(s) THEN LabelledSegments(s, VoprosLabels) ELSE <<>>

\* the first of two lists that is not empty
FirstNonEmpty(a, b) == IF a # <<>> THEN a ELSE b

\* the three generic patterns: the first one with a match decides
GenericQuestions(s) ==
    ValidStripped(FirstNonEmpty(VoprosMatches(s),
                  FirstNonEmpty(UpToFinalQMark(s, NumLabels),
                                UpToFinalQMark(s, Bullets))))

max_questions(spread_type) ==
    CASE spread_type = "single_card"   -> 2
      [] spread_type = "three_cards"   -> 3
      [] spread_type = "horseshoe"     -> 4
      [] spread_type = "love_triangle" -> 5
      [] spread_type = "celtic_cross"  -> 7
      [] spread_type = "week_forecast" -> 4
      [] spread_type = "year_wheel"    -> 5
      [] OTHER                         -> 5

\* way 1, the block between [QUESTIONS_START] and [QUESTIONS_END]
BracketedQuestions(response) ==
    IF HasBlock(response, "[QUESTIONS_START]", "[QUESTIONS_END]")
    THEN ValidStripped(LabelledSegments(
            Strip(BlockOf(response, "[QUESTIONS_START]", "[QUESTIONS_END]")), QLabels))
    ELSE <<>>

\* way 2, the block between <QUESTIONS> and </QUESTIONS>
LegacyQuestions(response) ==
    IF HasBlock(response, "<QUESTIONS>", "</QUESTIONS>")
    THEN NumberedLines(SplitLines(Strip(BlockOf(response, "<QUESTIONS>", "</QUESTIONS>"))))
    ELSE <<>>

\* the questions before their number is looked at
ExtractedQuestions(response) ==
    FirstNonEmpty(BracketedQuestions(response),
                  FirstNonEmpty(LegacyQuestions(response), GenericQuestions(response)))

questions_count_unchecked(questions, spread_type) == questions

_validate_questions_count(questions, spread_type) ==
    IF Len(questions) > max_questions(spread_type)
    THEN SubSeq(questions, 1, max_questions(spread_type))
    ELSE questions

_extract_questions_from_response(response, spread_type) ==
    LET counted(questions) ==
            IF questions # <<>> THEN _validate_questions_count(questions, spread_type)
            ELSE <<>>
    IN counted(ExtractedQuestions(response))

----------------------------------------------------------------------------
(* llm_session.LLMSession: cleaning of the final reply *)

Tags == {"<b>", "</b>"}                                     \* <[^>]+>

\* re.sub(r'<[^>]+>', '', text): the tag goes, the blanks around it stay
RECURSIVE RemoveTags(_)
RemoveTags(s) ==
    IF s = <<>> THEN <<>>
    ELSE <<IF Head(s) \in Tags THEN "" ELSE Head(s)>> \o RemoveTags(Tail(s))

\* number of line feeds in a run of whitespace tokens
RECURSIVE Newlines(_)
Newlines(run) ==
    IF run = <<>> THEN 0
    ELSE (CASE Head(run) = "\n" -> 1 [] Head(run) = "\n\n" -> 2 [] OTHER -> 0)
         + Newlines(Tail(run))

\* length of the run of whitespace tokens s starts with
RECURSIVE SpaceRun(_)
SpaceRun(s) == IF s # <<>> /\ Head(s) \in Space THEN 1 + SpaceRun(Tail(s)) ELSE 0

\* the run without the blanks after its last line feed
RECURSIVE UpToLastNewline(_)
UpToLastNewline(run) ==
    IF run # <<>> /\ run[Len(run)] = "" THEN UpToLastNewline(SubSeq(run, 1, Len(run) - 1))
    ELSE run

\* re.sub(r'\n\s*\n', '\n\n', text): whitespace holding two line feeds or
\* more becomes one blank line (the match runs from the first line feed to
\* the last one of the run)
RECURSIVE CollapseBlankLines(_)
CollapseBlankLines(s) ==
    IF s = <<>> THEN <<>>
    ELSE IF Head(s) \in Blank
         THEN LET run == UpToLastNewline(SubSeq(s, 1, SpaceRun(s)))
                  n == IF Newlines(run) >= 2 THEN Len(run) ELSE 1
                  first == IF Newlines(run) >= 2 THEN "\n\n" ELSE Head(s)
              IN <<first>> \o CollapseBlankLines(SubSeq(s, n + 1, Len(s)))
         ELSE <<Head(s)>> \o CollapseBlankLines(Tail(s))

\* text.split(): the words between whitespace
Words(s) == DropTok(s, Space)

every_interpretation_valid(interpretation) == TRUE

\* the words are compared in lower case; the tokens here are in lower case
_validate_interpretation(interpretation) ==
    /\ interpretation # <<>>
    /\ CharLen(Strip(interpretation)) >= 50
    /\ Words(interpretation) # <<>>
    /\ 10 * Cardinality(Range(Words(interpretation))) >= 3 * Len(Words(interpretation))

fallback_names_one_card(self) ==
    IF self.spread_data.cards = <<>> THEN <<"fallback_no_cards">>
    ELSE <<"fallback_for", self.user_data.name, self.spread_data.spread_type>>
         \o Take(self.spread_data.cards, 1) \o <<"fallback_closing">>

_get_fallback_interpretation(self) ==
    IF self.spread_data.cards = <<>> THEN <<"fallback_no_cards">>
    ELSE <<"fallback_for", self.user_data.name, self.spread_data.spread_type>>
         \o Take(self.spread_data.cards, 3) \o <<"fallback_closing">>

\* the text between the markers, or the reply without its tags; blank lines
\* collapsed
CleanedText(response) ==
    LET found == HasBlock(response, "[INTERPRETATION_START]", "[INTERPRETATION_END]")
        picked == IF found
                  THEN Strip(BlockOf(response, "[INTERPRETATION_START]", "[INTERPRETATION_END]"))
                  ELSE RemoveTags(response)
    IN CollapseBlankLines(Strip(picked))

_clean_final_response(self, response) ==
    LET validated(cleaned) ==
            IF _validate_interpretation(cleaned) THEN cleaned
            ELSE _get_fallback_interpretation(self)
    IN validated(CleanedText(response))

----------------------------------------------------------------------------
(* openrouter_client.send_request as the session sees it: the outcome o is *)
(* what the provider does once the retries are over, a reply text or an    *)
(* OpenRouterError of some class                                           *)

ErrorClasses == {"rate limit", "insufficient credits", "timeout", "server error"}

Reply(text) == [ok |-> TRUE, text |-> text, err |-> "none"]
Failure(err) == [ok |-> FALSE, text |-> NoText, err |-> err]

send_request(messages, o) ==
    IF messages = <<>> THEN Failure("ValueError")
    ELSE IF o.ok THEN Reply(Strip(o.text))
         ELSE o

----------------------------------------------------------------------------
(* llm_session.LLMSession: the stages.  An operation takes the session and *)
(* gives the session after it with what it returned; calls is the record   *)
(* of the Transport calls the session made.                                *)

SYSTEM == "system"
SPREAD_CONTEXT == "spread_context"
PSYCHOLOGICAL_ANALYSIS == "psychological_analysis"
CONTEXT_ANALYSIS == "context_analysis"
SYNTHESIS == "synthesis"
FINAL_RESPONSE == "final_response"

NoSpreadData == [spread_type |-> "", cards |-> <<>>, questions |-> <<>>]
NoUserData == [name |-> "", age |-> 0]

LLMSession ==
    [context |-> MessageContext(NoText),
     current_stage |-> "None",
     user_data |-> NoUserData,
     spread_data |-> NoSpreadData,
     generated_questions |-> <<>>,
     question_answers |-> <<>>,
     calls |-> <<>>]

\* one Transport call of a stage method: the history length and the stage
\* when the method was entered and when it was left, the reply received,
\* and how the method ended ("returned" or "raised")
Call(stage, before, r, after, ended) ==
    [stage |-> stage, ok |-> r.ok, err |-> r.err, reply |-> r.text,
     len_before |-> Len(before.context.messages),
     len_after |-> Len(after.context.messages),
     stage_before |-> before.current_stage,
     stage_after |-> after.current_stage,
     ended |-> ended]

Logged(stage, before, r, after, ended) ==
    [after EXCEPT !.calls = Append(@, Call(stage, before, r, after, ended))]

initialize_session(self, user_data, spread_data) ==
    [self EXCEPT !.user_data = user_data,
                 !.spread_data = spread_data,
                 !.context = add_user_message(@, get_system_persona(user_data.name, user_data.age)),
                 !.current_stage = SYSTEM]

\* raises ValueError on empty spread data: the caller models that case
add_spread_context(self) ==
    [self EXCEPT !.context = add_user_message(@,
                     get_spread_context(self.spread_data.spread_type,
                                        self.spread_data.cards, <<>>)),
                 !.current_stage = SPREAD_CONTEXT]

add_preliminary_answers(self, answers) ==
    IF answers # <<>>
    THEN [self EXCEPT !.context = add_user_message(@,
             <<"PRELIMINARY_ANSWERS:">> \o format_user_answers(self.spread_data.questions, answers))]
    ELSE self

generate_psychological_analysis(self, preliminary_answers, o) ==
    LET received(s2, r, questions) ==
            IF r.ok
            THEN [self |-> Logged(PSYCHOLOGICAL_ANALYSIS, self, r,
                              [s2 EXCEPT !.context = add_assistant_message(@, r.text),
                                         !.generated_questions = questions,
                                         !.current_stage = PSYCHOLOGICAL_ANALYSIS],
                              "returned"),
                  questions |-> questions]
            ELSE [self |-> Logged(PSYCHOLOGICAL_ANALYSIS, self, r, s2, "returned"),
                  questions |-> <<>>]
        replied(s2, r) ==
            received(s2, r, _extract_questions_from_response(
                                r.text, s2.spread_data.spread_type))
        prompted(s2) == replied(s2, send_request(get_message_history(s2.context), o))
        answered(s1) ==
            prompted([s1 EXCEPT !.context = add_user_message(@,
                         get_psychological_analysis_prompt(preliminary_answers))])
    IN answered(IF preliminary_answers # <<>>
                THEN add_preliminary_answers(self, preliminary_answers) ELSE self)

question_answers_always_added(self, answers) ==
    [self EXCEPT !.question_answers = answers,
                 !.context = add_user_message(@,
                     <<"QUESTION_ANSWERS:">> \o format_user_answers(self.generated_questions, answers))]

add_question_answers(self, answers) ==
    IF answers = <<>> \/ self.generated_questions = <<>> THEN self
    ELSE [self EXCEPT !.question_answers = answers,
                      !.context = add_user_message(@,
                          <<"QUESTION_ANSWERS:">> \o format_user_answers(self.generated_questions, answers))]

\* a context analysis that does not keep the reply in the context
context_analysis_reply_dropped(self, o) ==
    LET replied(s1, r) ==
            IF r.ok
            THEN [self |-> Logged(CONTEXT_ANALYSIS, self, r,
                              [s1 EXCEPT !.current_stage = CONTEXT_ANALYSIS], "returned"),
                  success |-> TRUE]
            ELSE [self |-> Logged(CONTEXT_ANALYSIS, self, r, s1, "returned"),
                  success |-> FALSE]
        prompted(s1) == replied(s1, send_request(get_message_history(s1.context), o))
    IN prompted([self EXCEPT !.context = add_user_message(@, get_context_analysis_prompt)])

generate_context_analysis(self, o) ==
    LET replied(s1, r) ==
            IF r.ok
            THEN [self |-> Logged(CONTEXT_ANALYSIS, self, r,
                              [s1 EXCEPT !.context = add_assistant_message(@, r.text),
                                         !.current_stage = CONTEXT_ANALYSIS],
                              "returned"),
                  success |-> TRUE]
            ELSE [self |-> Logged(CONTEXT_ANALYSIS, self, r, s1, "returned"),
                  success |-> FALSE]
        prompted(s1) == replied(s1, send_request(get_message_history(s1.context), o))
    IN prompted([self EXCEPT !.context = add_user_message(@, get_context_analysis_prompt)])

\* a synthesis that runs the context analysis once more
context_analysis_repeated(self, o) == generate_context_analysis(self, o)

generate_synthesis(self, o) ==
    LET replied(s1, r) ==
            IF r.ok
            THEN [self |-> Logged(SYNTHESIS, self, r,
                              [s1 EXCEPT !.context = add_assistant_message(@, r.text),
                                         !.current_stage = SYNTHESIS],
                              "returned"),
                  success |-> TRUE]
            ELSE [self |-> Logged(SYNTHESIS, self, r, s1, "returned"),
                  success |-> FALSE]
        prompted(s1) == replied(s1, send_request(get_message_history(s1.context), o))
    IN prompted([self EXCEPT !.context = add_user_message(@, get_synthesis_prompt)])

\* a final stage that keeps its reply in the context
final_reply_appended(self, o) ==
    LET replied(s1, r) ==
            IF r.ok
            THEN [self |-> Logged(FINAL_RESPONSE, self, r,
                              [s1 EXCEPT !.context = add_assistant_message(@, r.text),
                                         !.current_stage = FINAL_RESPONSE], "returned"),
                  none |-> FALSE,
                  interpretation |-> _clean_final_response(s1, r.text)]
            ELSE [self |-> Logged(FINAL_RESPONSE, self, r, s1, "returned"),
                  none |-> TRUE, interpretation |-> NoText]
        prompted(s1) == replied(s1, send_request(get_message_history(s1.context), o))
    IN prompted([self EXCEPT !.context = add_user_message(@, get_final_response_prompt)])

\* interpretation is the text returned; none tells the None of the source
generate_final_interpretation(self, o) ==
    LET replied(s1, r) ==
            IF r.ok
            THEN [self |-> Logged(FINAL_RESPONSE, self, r,
                              [s1 EXCEPT !.current_stage = FINAL_RESPONSE], "returned"),
                  none |-> FALSE,
                  interpretation |-> _clean_final_response(s1, r.text)]
            ELSE [self |-> Logged(FINAL_RESPONSE, self, r, s1, "returned"),
                  none |-> TRUE, interpretation |-> NoText]
        prompted(s1) == replied(s1, send_request(get_message_history(s1.context), o))
    IN prompted([self EXCEPT !.context = add_user_message(@, get_final_response_prompt)])

\* (questions, None); an exception of the first steps gives ([], None)
run_full_interpretation(self, user_data, spread_data, preliminary_answers, o) ==
    LET initialized(s1) ==
            IF spread_data = NoSpreadData
            THEN [self |-> s1, questions |-> <<>>]
            ELSE generate_psychological_analysis(add_spread_context(s1),
                                                 preliminary_answers, o)
    IN initialized(initialize_session(self, user_data, spread_data))

----------------------------------------------------------------------------
(* simple_state: the dialogue state and the data kept per chat.  A key the *)
(* dictionary does not hold is a field with its empty value.               *)

IDLE == "IDLE"
WAITING_NAME == "WAITING_NAME"
WAITING_BIRTHDATE == "WAITING_BIRTHDATE"
WAITING_MAGIC_NUMBER == "WAITING_MAGIC_NUMBER"
WAITING_PRELIMINARY_ANSWERS == "WAITING_PRELIMINARY_ANSWERS"
WAITING_LLM_QUESTIONS == "WAITING_LLM_QUESTIONS"
PROCESSING_INTERPRETATION == "PROCESSING_INTERPRETATION"
WAITING_FEEDBACK == "WAITING_FEEDBACK"
WAITING_COMMENT == "WAITING_COMMENT"

NoData ==
    [spread_type |-> "", tariff |-> "", name |-> "", age |-> 0,
     magic_number |-> 0, questions |-> <<>>, current_question |-> 0,
     preliminary_answers |-> <<>>, selected_cards |-> <<>>,
     llm_session |-> FALSE, llm_questions |-> <<>>,
     current_llm_question |-> 0, llm_answers |-> <<>>]

\* dict.update(data)
Updated(old, data) ==
    [k \in DOMAIN old |-> IF k \in DOMAIN data THEN data[k] ELSE old[k]]

set_state(states, chat_id, state, data) ==
    [states EXCEPT ![chat_id] =
        [state |-> state,
         data |-> IF DOMAIN data # {} THEN Updated(@.data, data) ELSE @.data]]

get_state(states, chat_id) == states[chat_id].state

get_user_data(states, chat_id) == states[chat_id].data

\* an update_data that writes the key for every chat
update_data_of_every_chat(states, chat_id, key, value) ==
    [c \in DOMAIN states |-> [states[c] EXCEPT !.data[key] = value]]

update_data(states, chat_id, key, value) ==
    [states EXCEPT ![chat_id].data[key] = value]

reset_to_idle(states, chat_id, keep_data) ==
    IF keep_data
    THEN set_state(states, chat_id, IDLE, get_user_data(states, chat_id))
    ELSE set_state(states, chat_id, IDLE, <<>>)

\* del _user_states[chat_id]: the chat reads as one never seen
clear_state(states, chat_id) ==
    [states EXCEPT ![chat_id] = [state |-> IDLE, data |-> NoData]]

----------------------------------------------------------------------------
(* user_manager: the stored users, keyed by the Telegram user id (the chat *)
(* id of a private chat)                                                   *)

InitialBeginnerCredits == 3
InitialExpertCredits == 1

NoUser == [registered |-> FALSE, name |-> "", age |-> 0,
           credits |-> [beginner |-> 0, expert |-> 0]]

user_exists(store, user_id) == store[user_id].registered

save_user(store, user_id, name, age) ==
    [store EXCEPT ![user_id] =
        [registered |-> TRUE, name |-> name, age |-> age,
         credits |-> [beginner |-> InitialBeginnerCredits,
                      expert |-> InitialExpertCredits]]]

get_user(store, user_id) == store[user_id]

get_user_credits(store, user_id) == store[user_id].credits

has_credits(store, user_id, tariff) ==
    /\ store[user_id].registered
    /\ tariff \in DOMAIN store[user_id].credits
    /\ store[user_id].credits[tariff] > 0

\* a use_credit that does not look at the balance
can_use_credit_below_zero(store, user_id, tariff) ==
    /\ store[user_id].registered
    /\ tariff \in DOMAIN store[user_id].credits

\* TRUE when a credit can be taken; use_credit is the store after taking it
can_use_credit(store, user_id, tariff) == has_credits(store, user_id, tariff)

use_credit(store, user_id, tariff) ==
    IF can_use_credit(store, user_id, tariff)
    THEN [store EXCEPT ![user_id].credits[tariff] = @ - 1]
    ELSE store

----------------------------------------------------------------------------
(* validators, on the inputs the model sends *)

NameLen(text) ==
    CASE text = "Anna" -> 4 [] text = "A" -> 1 [] OTHER -> 4

validate_name(text) == NameLen(text) >= 2 /\ NameLen(text) <= 50

\* a birth date is given by the age it makes today; 0 is a text that is no date
validate_birthdate(age) == age >= 6 /\ age <= 120

\* a text of digits is given by its number; a text that is no number by -1
validate_magic_number(number) == number >= 1 /\ number <= 999

----------------------------------------------------------------------------
(* card_manager and the spread tables *)

Deck == <<"The Fool", "The Magician", "The Empress", "The Tower">>

\* the random module: one generator for the whole process, given by its
\* state.  seed puts it in the state the seed decides, sample and randint
\* draw from the state and move it on.
seed_left_alone(state, a) == state

random_seed(state, a) == a % MaxRandomStates

\* random.choices, which may pick a position twice, in the place of sample
random_choices(state, population, k) ==
    [cards |-> [i \in 1..k |-> population[(state % Len(population)) + 1]],
     state |-> (state + k) % MaxRandomStates]

random_sample(state, population, k) ==
    [cards |-> [i \in 1..k |-> population[((state + i - 1) % Len(population)) + 1]],
     state |-> (state + k) % MaxRandomStates]

random_randint(state, a, b) ==
    [value |-> a + (state % (b - a + 1)),
     state |-> (state + 1) % MaxRandomStates]

\* the seed of a draw; an age below 0 stands for user_age=None
complex_seed(magic_number, user_age) ==
    IF user_age < 0 THEN magic_number ELSE magic_number + user_age

\* a select_cards that seeds the generator before it looks at its arguments
select_cards_seeded_first(state, deck, count, magic_number, user_age) ==
    LET seeded == random_seed(state, complex_seed(magic_number, user_age))
    IN IF count <= 0 \/ count > Len(deck)
       THEN [cards |-> <<>>, state |-> seeded, raised |-> "ValueError"]
       ELSE IF magic_number = 0
       THEN [cards |-> <<>>, state |-> seeded, raised |-> "TypeError"]
       ELSE LET sampled == random_sample(seeded, deck, count)
            IN [cards |-> sampled.cards, state |-> sampled.state, raised |-> "none"]

\* select_cards with the generator as it stands: the cards, the generator
\* after the call and the exception raised.  No cards come with the
\* ValueError of a count out of range and with the TypeError of a magic number
\* that is no integer (given as 0), raised before the generator is touched.
select_cards_seeded(state, deck, count, magic_number, user_age) ==
    IF count <= 0 \/ count > Len(deck)
    THEN [cards |-> <<>>, state |-> state, raised |-> "ValueError"]
    ELSE IF magic_number = 0
    THEN [cards |-> <<>>, state |-> state, raised |-> "TypeError"]
    ELSE LET sampled ==
                 random_sample(random_seed(state, complex_seed(magic_number, user_age)),
                               deck, count)
         IN [cards |-> sampled.cards, state |-> sampled.state, raised |-> "none"]

\* the cards select_cards returns: the seed alone decides them
select_cards(deck, count, magic_number, user_age) ==
    select_cards_seeded(0, deck, count, magic_number, user_age).cards

SPREAD_MAPPING(spread_type) ==
    CASE spread_type = "spread_single" -> "single_card"
      [] spread_type = "spread_three"  -> "three_cards"
      [] OTHER                         -> spread_type

\* spread_configs.get_spread_config: the number of cards of a spread, 0 for
\* a spread without configuration
get_spread_config(spread_type) ==
    CASE spread_type = "single_card" -> [card_count |-> 1]
      [] spread_type = "three_cards" -> [card_count |-> 3]
      [] OTHER                       -> [card_count |-> 0]

\* spread_questions.get_questions_for_spread over a questions file that
\* holds one question for the single card and no entry for the three cards
get_questions_for_spread(spread_type) ==
    IF spread_type = "single_card"
    THEN << <<"what", "area", "of", "life?">> >>
    ELSE <<>>

----------------------------------------------------------------------------
(* llm_integration: the reading.  A handler takes the bot's state w (the   *)
(* dialogue states, the stored users, the sessions, the journal) and gives *)
(* the state after it; os holds, per stage, what the provider answers if   *)
(* the handler gets to call that stage.                                    *)

Script(q, ca, s, f) == [q |-> q, ca |-> ca, s |-> s, f |-> f]

\* the bot answers with a message of the given kind
Say(w, chat_id, reply) == [w EXCEPT !.journal[chat_id].reply = reply]

\* the journal counts the Transport calls a session operation added
Noted(w, chat_id, before, after) ==
    [w EXCEPT !.journal[chat_id].made = @ + (Len(after.calls) - Len(before.calls)),
              !.sessions[chat_id] = after]

\* the message handle_llm_error picks for an error
error_message(is_openrouter_error, error_str) ==
    IF is_openrouter_error
    THEN CASE error_str \in {"rate limit", "too many requests"}  -> "server_overloaded"
           [] error_str \in {"insufficient credits", "balance"}  -> "technical_problems"
           [] error_str \in {"timeout", "connection"}            -> "wait_time_exceeded"
           [] OTHER                                              -> "technical_faults"
    ELSE "unexpected_error"

handle_llm_error(w, chat_id, is_openrouter_error, error_str) ==
    LET w1 == Say(w, chat_id, error_message(is_openrouter_error, error_str))
    IN [w1 EXCEPT !.user_states = reset_to_idle(@, chat_id, FALSE)]

\* feedback_system.request_feedback
request_feedback(w, chat_id) ==
    [w EXCEPT !.user_states = set_state(@, chat_id, WAITING_FEEDBACK, <<>>),
              !.journal[chat_id].feedback_offered = TRUE]

send_final_interpretation_with_image(w, chat_id, interpretation) ==
    LET w1 == [Say(w, chat_id, "interpretation") EXCEPT
                  !.journal[chat_id].shown = interpretation]
    IN request_feedback(w1, chat_id)

\* any exception inside gives None: the stages report failure by value, so
\* none is raised
generate_interpretation_with_visual_progress(llm_session, llm_answers, os) ==
    LET synthesized(b) ==
            IF ~b.success
            THEN [self |-> b.self, none |-> TRUE, interpretation |-> NoText]
            ELSE generate_final_interpretation(b.self, os.f)
        analysed(a) ==
            IF ~a.success
            THEN [self |-> a.self, none |-> TRUE, interpretation |-> NoText]
            ELSE synthesized(generate_synthesis(a.self, os.s))
    IN analysed(generate_context_analysis(
                    add_question_answers(llm_session, llm_answers), os.ca))

continue_final_interpretation(w, chat_id, session_data, os) ==
    LET generated(w1, g) ==
            IF ~g.none /\ g.interpretation # NoText
            THEN send_final_interpretation_with_image(
                     Noted(w1, chat_id, w1.sessions[chat_id], g.self),
                     chat_id, g.interpretation)
            ELSE Say(Noted(w1, chat_id, w1.sessions[chat_id], g.self),
                     chat_id, "interpretation_failed")
        processing(w1) ==
            IF ~session_data.llm_session
            THEN Say(w1, chat_id, "generation_error")
            ELSE generated(w1, generate_interpretation_with_visual_progress(
                                   w1.sessions[chat_id], session_data.llm_answers, os))
    IN processing([w EXCEPT !.user_states =
                      set_state(@, chat_id, PROCESSING_INTERPRETATION, <<>>)])

start_llm_interpretation(w, chat_id, session_data, tariff, os) ==
    LET mapped_spread_type == SPREAD_MAPPING(session_data.spread_type)
        spread_config == get_spread_config(mapped_spread_type)
        user_data == [name |-> session_data.name, age |-> session_data.age]
        asked(w2, questions) ==
            IF questions # <<>>
            THEN Say([w2 EXCEPT !.user_states =
                         set_state(update_data(update_data(update_data(@,
                             chat_id, "llm_questions", questions),
                             chat_id, "current_llm_question", 0),
                             chat_id, "llm_answers", <<>>),
                             chat_id, WAITING_LLM_QUESTIONS, <<>>),
                                !.journal[chat_id].asked = <<questions[1]>>],
                     chat_id, "llm_question")
            ELSE continue_final_interpretation(w2, chat_id,
                     get_user_data(w2.user_states, chat_id), os)
        ran(w1, r) == asked(Noted(w1, chat_id, LLMSession, r.self), r.questions)
        selected(selected_cards) ==
            IF selected_cards = <<>>
            THEN Say(w, chat_id, "analysis_error")
            ELSE ran([w EXCEPT !.user_states =
                         update_data(update_data(@, chat_id, "selected_cards", selected_cards),
                                     chat_id, "llm_session", TRUE)],
                     run_full_interpretation(LLMSession, user_data,
                         [spread_type |-> mapped_spread_type,
                          cards |-> selected_cards,
                          questions |-> session_data.questions],
                         session_data.preliminary_answers, os.q))
    IN IF spread_config.card_count = 0
       THEN Say(w, chat_id, "spread_configuration_error")
       ELSE selected(select_cards(Deck, spread_config.card_count,
                                  session_data.magic_number, chat_id))

\* a process_llm_questions that puts the answer in front of the earlier ones
process_llm_questions_prepending(w, chat_id, user_input, os) ==
    LET session_data == get_user_data(w.user_states, chat_id)
        next_question == session_data.current_llm_question + 1
        llm_answers == <<user_input>> \o session_data.llm_answers
        w1 == [w EXCEPT !.user_states = update_data(@, chat_id, "llm_answers", llm_answers)]
    IN IF next_question < Len(session_data.llm_questions)
       THEN Say([w1 EXCEPT !.user_states =
                    update_data(@, chat_id, "current_llm_question", next_question),
                           !.journal[chat_id].asked =
                               Append(@, session_data.llm_questions[next_question + 1])],
                chat_id, "llm_question")
       ELSE continue_final_interpretation(w1, chat_id,
                [session_data EXCEPT !.llm_answers = llm_answers], os)

\* the journal keeps the questions the chat was sent, in the order sent
process_llm_questions(w, chat_id, user_input, os) ==
    LET session_data == get_user_data(w.user_states, chat_id)
        next_question == session_data.current_llm_question + 1
        answered(w1, llm_answers) ==
            IF next_question < Len(session_data.llm_questions)
            THEN Say([w1 EXCEPT !.user_states =
                         update_data(@, chat_id, "current_llm_question", next_question),
                                !.journal[chat_id].asked =
                                    Append(@, session_data.llm_questions[next_question + 1])],
                     chat_id, "llm_question")
            ELSE continue_final_interpretation(w1, chat_id,
                     [session_data EXCEPT !.llm_answers = llm_answers], os)
    IN answered([w EXCEPT !.user_states = update_data(@, chat_id, "llm_answers",
                                              Append(session_data.llm_answers, user_input))],
                Append(session_data.llm_answers, user_input))

----------------------------------------------------------------------------
(* handlers: the steps of the dialogue *)

is_magic_numbers_enabled == config.use_magic_numbers

\* the Telegram user an update of a chat comes from: a private chat has the
\* id of its user, a group has an id below 0, and the group -n is one in
\* which user n writes
from_user(chat_id) == IF chat_id < 0 THEN 0 - chat_id ELSE chat_id

start_preliminary_questions(w, chat_id, os) ==
    LET session_data == get_user_data(w.user_states, chat_id)
        questions == get_questions_for_spread(SPREAD_MAPPING(session_data.spread_type))
    IN IF questions # <<>>
       THEN Say([w EXCEPT !.user_states =
                    set_state(update_data(update_data(update_data(@,
                        chat_id, "questions", questions),
                        chat_id, "current_question", 0),
                        chat_id, "preliminary_answers", <<>>),
                        chat_id, WAITING_PRELIMINARY_ANSWERS, <<>>)],
                chat_id, "preliminary_question")
       ELSE start_llm_interpretation(w, chat_id, session_data, session_data.tariff, os)

\* a bot that never asks for the magic number
proceed_without_magic_number(w, chat_id, random_magic, os) ==
    start_preliminary_questions(
        [w EXCEPT !.user_states = update_data(@, chat_id, "magic_number", random_magic)],
        chat_id, os)

\* random_magic is what generate_random_magic_number draws
proceed_to_questions_or_magic_number(w, chat_id, random_magic, os) ==
    IF is_magic_numbers_enabled
    THEN Say([w EXCEPT !.user_states = set_state(@, chat_id, WAITING_MAGIC_NUMBER, <<>>)],
             chat_id, "ask_magic_number")
    ELSE start_preliminary_questions(
             [w EXCEPT !.user_states = update_data(@, chat_id, "magic_number", random_magic)],
             chat_id, os)

\* the journal notes whether the reading of the chat has been paid for:
\* use_credit on the stored users, and what it returned
Debit(w, chat_id, user_id, tariff_key) ==
    [w EXCEPT !.users = use_credit(@, user_id, tariff_key),
              !.journal[chat_id].paid = can_use_credit(w.users, user_id, tariff_key)]

\* a handle_tariff_selection that goes on whatever has_credits and
\* use_credit return
handle_tariff_selection_unchecked(w, chat_id, tariff_key, spread_type, random_magic, os) ==
    LET user_id == from_user(chat_id)
        user_data == get_user(w.users, user_id)
    IN IF user_exists(w.users, user_id)
       THEN proceed_to_questions_or_magic_number(
                [Debit(w, chat_id, user_id, tariff_key)
                 EXCEPT !.user_states = set_state(@, chat_id, IDLE,
                       [spread_type |-> spread_type, tariff |-> tariff_key,
                        name |-> user_data.name, age |-> user_data.age])],
                chat_id, random_magic, os)
       ELSE Say([w EXCEPT !.user_states = set_state(@, chat_id, WAITING_NAME,
                    [spread_type |-> spread_type, tariff |-> tariff_key]),
                          !.journal[chat_id].paid = FALSE],
                chat_id, "ask_name")

handle_tariff_selection(w, chat_id, tariff_key, spread_type, random_magic, os) ==
    LET user_id == from_user(chat_id)
        chosen(w2) ==
            IF is_magic_numbers_enabled
            THEN Say([w2 EXCEPT !.user_states =
                         set_state(@, chat_id, WAITING_MAGIC_NUMBER, <<>>)],
                     chat_id, "ask_magic_number")
            ELSE start_preliminary_questions(
                     [w2 EXCEPT !.user_states =
                         update_data(@, chat_id, "magic_number", random_magic)],
                     chat_id, os)
        charged(w1, user_data) ==
            chosen([w1 EXCEPT !.user_states = set_state(@, chat_id, IDLE,
                       [spread_type |-> spread_type, tariff |-> tariff_key,
                        name |-> user_data.name, age |-> user_data.age])])
    IN IF user_exists(w.users, user_id)
       THEN IF ~has_credits(w.users, user_id, tariff_key)
            THEN Say(w, chat_id, "not_enough_credits")
            ELSE charged(Debit(w, chat_id, user_id, tariff_key),
                         get_user(w.users, user_id))
       ELSE Say([w EXCEPT !.user_states = set_state(@, chat_id, WAITING_NAME,
                    [spread_type |-> spread_type, tariff |-> tariff_key]),
                          !.journal[chat_id].paid = FALSE],
                chat_id, "ask_name")

\* a process_name that stores the text before it looks at it
process_name_stores_first(w, chat_id, user_input) ==
    IF ~validate_name(user_input)
    THEN Say([w EXCEPT !.user_states = update_data(@, chat_id, "name", user_input)],
             chat_id, "name_invalid")
    ELSE Say([w EXCEPT !.user_states =
                 set_state(update_data(@, chat_id, "name", user_input),
                           chat_id, WAITING_BIRTHDATE, <<>>)],
             chat_id, "ask_birthdate")

process_name(w, chat_id, user_input) ==
    IF ~validate_name(user_input)
    THEN Say(w, chat_id, "name_invalid")
    ELSE Say([w EXCEPT !.user_states =
                 set_state(update_data(@, chat_id, "name", user_input),
                           chat_id, WAITING_BIRTHDATE, <<>>)],
             chat_id, "ask_birthdate")

process_birthdate(w, chat_id, user_input, random_magic, os) ==
    LET session_data == get_user_data(w.user_states, chat_id)
        user_id == from_user(chat_id)
        tariff_key == IF session_data.tariff = "" THEN "beginner" ELSE session_data.tariff
        saved(w1) ==
            IF ~can_use_credit(w1.users, user_id, tariff_key)
            THEN Say(w1, chat_id, "credit_error")
            ELSE proceed_to_questions_or_magic_number(
                     Debit(w1, chat_id, user_id, tariff_key),
                     chat_id, random_magic, os)
    IN IF ~validate_birthdate(user_input)
       THEN Say(w, chat_id, "birthdate_invalid")
       ELSE saved([w EXCEPT !.users = save_user(@, user_id, session_data.name, user_input),
                            !.user_states = update_data(@, chat_id, "age", user_input)])

process_magic_number(w, chat_id, user_input, os) ==
    LET session_data == get_user_data(w.user_states, chat_id)
        questions == get_questions_for_spread(SPREAD_MAPPING(session_data.spread_type))
        tariff == IF session_data.tariff = "" THEN "beginner" ELSE session_data.tariff
        stored(w1) ==
            IF questions # <<>>
            THEN Say([w1 EXCEPT !.user_states =
                         set_state(update_data(update_data(update_data(@,
                             chat_id, "questions", questions),
                             chat_id, "current_question", 0),
                             chat_id, "preliminary_answers", <<>>),
                             chat_id, WAITING_PRELIMINARY_ANSWERS, <<>>)],
                     chat_id, "preliminary_question")
            \* session_data was read before the number was stored
            ELSE start_llm_interpretation(w1, chat_id, session_data, tariff, os)
    IN IF ~validate_magic_number(user_input)
       THEN Say(w, chat_id, "magic_number_invalid")
       ELSE stored([w EXCEPT !.user_states =
                       update_data(@, chat_id, "magic_number", user_input)])

process_preliminary_answers(w, chat_id, user_input, os) ==
    LET session_data == get_user_data(w.user_states, chat_id)
        questions == session_data.questions
        current_question_index == session_data.current_question
        tariff == IF session_data.tariff = "" THEN "beginner" ELSE session_data.tariff
        next_question_index == current_question_index + 1
        \* the list appended to is the one session_data holds
        answered(w1, data) ==
            IF next_question_index < Len(questions)
            THEN Say([w1 EXCEPT !.user_states =
                         update_data(@, chat_id, "current_question", next_question_index)],
                     chat_id, "preliminary_question")
            ELSE start_llm_interpretation(w1, chat_id, data, tariff, os)
    IN IF questions = <<>> \/ current_question_index >= Len(questions)
       THEN start_llm_interpretation(w, chat_id, session_data, tariff, os)
       ELSE answered([w EXCEPT !.user_states = update_data(@, chat_id, "preliminary_answers",
                                 Append(session_data.preliminary_answers, user_input))],
                     [session_data EXCEPT !.preliminary_answers = Append(@, user_input)])

handle_feedback(w, chat_id) ==
    [Say(w, chat_id, "thanks_for_feedback") EXCEPT
        !.user_states = reset_to_idle(@, chat_id, FALSE)]

----------------------------------------------------------------------------
(* What the users and the provider do *)

Names == {"Anna", "A"}
Ages == {34, 0}                 \* a birth date 34 years back, and a text that is no date
MagicNumbers == {7, 1000, -1}   \* "7", "1000", and a text that is no number
RandomMagic == {7}
Answers == {"work"}
LLMAnswers == {"work", "love"}
Tariffs == {"beginner", "expert"}
Spreads == {"spread_single", "spread_three"}

QuestionReplies ==
    { <<"analysis", "[QUESTIONS_START]", "Q1:", "what_troubles_you_now?", "\n",
        "Q2:", "what_do_you_expect?", "[QUESTIONS_END]">>,
      <<"analysis", "without", "questions">> }

StageReplies == { <<"ok">> }

FinalReplies ==
    { <<"preface", "[INTERPRETATION_START]", "\n", "transformation", "possibilities",
        "\n", "", "\n", "relationships", "understanding", "[INTERPRETATION_END]", "bye">>,
      <<"<b>", "transformation", "</b>", "possibilities", "relationships",
        "understanding">>,
      <<"ok">> }

\* every class of failure happens, each at some stage
QOutcomes == {Reply(t) : t \in QuestionReplies} \cup {Failure("timeout")}
ContextOutcomes ==
    {Reply(t) : t \in StageReplies}
        \cup {Failure("rate limit"), Failure("insufficient credits")}
SynthesisOutcomes == {Reply(t) : t \in StageReplies} \cup {Failure("server error")}
FinalOutcomes == {Reply(t) : t \in FinalReplies} \cup {Failure("rate limit")}

\* the outcome of a stage the handler does not get to
Unused == Failure("unused")
NoScript == Script(Unused, Unused, Unused, Unused)

\* the Transport calls made while the last update of the chat was handled
HandlerCalls(w, c) ==
    LET calls == w.sessions[c].calls
    IN SubSeq(calls, Len(calls) - w.journal[c].made + 1, Len(calls))

\* the scripts: an outcome for each stage a handler may get to
Scripts ==
    { Script(q, ca, s, f) : q \in QOutcomes, ca \in ContextOutcomes,
                            s \in SynthesisOutcomes, f \in FinalOutcomes }

World == [user_states |-> user_states, users |-> users,
          sessions |-> sessions, journal |-> journal]

\* the state an update of chat c is handled from: a fresh journal entry
Begin(c) ==
    [World EXCEPT !.journal[c].made = 0,
                  !.journal[c].reply = "",
                  !.journal[c].shown = NoText]

Becomes(w) ==
    /\ user_states' = w.user_states
    /\ users' = w.users
    /\ sessions' = w.sessions
    /\ journal' = w.journal
    /\ UNCHANGED <<config, mctx, fixed, transport, extractor, cleaner, selector, catalog,
                   readings, application, state_calls,
                   credit_calls, feedback>>

----------------------------------------------------------------------------
(* openrouter_client.MessageContext on its own: a context and the calls of  *)
(* its methods.  initial is the task prompt it was constructed with,        *)
(* user_adds counts the calls of add_user_message (2 stands for two or      *)
(* more), op is the last method called.                                     *)

NoContext == [ctx |-> MessageContext(NoText), initial |-> NoText,
              user_adds |-> 0, op |-> "__init__"]

TaskPrompts == {NoText, <<"persona">>}
NewTaskPrompts == {<<"persona", "revised">>}
UserTexts == {<<"hello">>, <<"again">>}
AssistantTexts == {<<"reply">>}
SystemTexts == {<<"note">>}

\* the record after a method was called and left the context ctx
CtxCalled(ctx, op) ==
    [mctx EXCEPT !.ctx = ctx, !.op = op,
                 !.user_adds = IF op = "add_user_message" /\ @ < 2 THEN @ + 1 ELSE @]

CtxAddUser ==
    /\ Len(mctx.ctx.messages) < MaxCtxLen
    /\ \E text \in UserTexts :
         mctx' = CtxCalled(add_user_message(mctx.ctx, text), "add_user_message")
    /\ UNCHANGED <<user_states, users, sessions, journal, config, fixed,
                 transport, extractor, cleaner, selector, catalog,
                   readings, application, state_calls,
                   credit_calls, feedback>>

CtxAddAssistant ==
    /\ Len(mctx.ctx.messages) < MaxCtxLen
    /\ \E text \in AssistantTexts :
         mctx' = CtxCalled(add_assistant_message(mctx.ctx, text), "add_assistant_message")
    /\ UNCHANGED <<user_states, users, sessions, journal, config, fixed,
                 transport, extractor, cleaner, selector, catalog,
                   readings, application, state_calls,
                   credit_calls, feedback>>

CtxAddSystem ==
    /\ Len(mctx.ctx.messages) < MaxCtxLen
    /\ \E text \in SystemTexts :
         mctx' = CtxCalled(add_system_message(mctx.ctx, text), "add_system_message")
    /\ UNCHANGED <<user_states, users, sessions, journal, config, fixed,
                 transport, extractor, cleaner, selector, catalog,
                   readings, application, state_calls,
                   credit_calls, feedback>>

CtxClear ==
    /\ mctx' = CtxCalled(clear(mctx.ctx), "clear")
    /\ UNCHANGED <<user_states, users, sessions, journal, config, fixed,
                 transport, extractor, cleaner, selector, catalog,
                   readings, application, state_calls,
                   credit_calls, feedback>>

CtxUpdateTaskPrompt ==
    /\ Len(mctx.ctx.messages) < MaxCtxLen
    /\ \E new_task_prompt \in NewTaskPrompts :
         mctx' = CtxCalled(update_task_prompt(mctx.ctx, new_task_prompt),
                           "update_task_prompt")
    /\ UNCHANGED <<user_states, users, sessions, journal, config, fixed,
                 transport, extractor, cleaner, selector, catalog,
                   readings, application, state_calls,
                   credit_calls, feedback>>

----------------------------------------------------------------------------
(* llm_session_fixed.FixedLLMSession: one context with every prompt and one *)
(* request.  returned is what the last method called gave back.             *)

FixedLLMSession ==
    [context |-> MessageContext(NoText),
     current_stage |-> "None",
     user_data |-> NoUserData,
     spread_data |-> NoSpreadData]

NoFixedSession == [session |-> FixedLLMSession, returned |-> "nothing"]

setup_spread(self, spread_type, selected_cards, user_name, user_age) ==
    [self EXCEPT !.spread_data = [spread_type |-> spread_type,
                                  cards |-> selected_cards,
                                  questions |-> <<>>],
                 !.user_data = [name |-> user_name, age |-> user_age]]

\* the answers as numbered lines
RECURSIVE NumberedAnswers(_, _)
NumberedAnswers(answers, i) ==
    IF answers = <<>> THEN <<>>
    ELSE <<CASE i = 1 -> "1." [] i = 2 -> "2." [] OTHER -> "3.", Head(answers)>>
         \o NumberedAnswers(Tail(answers), i + 1)

\* self.user_data['name'] of a session that was not set up raises KeyError,
\* caught: False, and the context is the one there was
build_complete_context(self, preliminary_answers, additional_answers) ==
    LET spread(c0) == add_user_message(c0,
                          get_spread_context(self.spread_data.spread_type,
                                             self.spread_data.cards, <<>>))
        preliminary(c1) ==
            IF preliminary_answers # <<>>
            THEN add_user_message(c1, <<"PRELIMINARY_ANSWERS:">>
                                      \o NumberedAnswers(preliminary_answers, 1))
            ELSE c1
        analysis(c2) == add_user_message(c2,
                            get_psychological_analysis_prompt(preliminary_answers))
        additional(c3) ==
            IF additional_answers # <<>>
            THEN add_user_message(c3, <<"ADDITIONAL_ANSWERS:">>
                                      \o NumberedAnswers(additional_answers, 1))
            ELSE c3
        closing(c4) ==
            add_user_message(add_user_message(add_user_message(c4,
                get_context_analysis_prompt), get_synthesis_prompt),
                get_final_response_prompt)
    IN IF self.user_data = NoUserData
       THEN [self |-> self, success |-> FALSE]
       ELSE [self |-> [self EXCEPT !.context =
                          closing(additional(analysis(preliminary(spread(
                              MessageContext(get_system_persona(self.user_data.name,
                                                                self.user_data.age)))))))],
             success |-> TRUE]

\* an empty history makes send_request raise ValueError; any exception gives None
generate_complete_interpretation(self, o) ==
    IF send_request(get_message_history(self.context), o).ok
    THEN [self |-> [self EXCEPT !.current_stage = FINAL_RESPONSE], none |-> FALSE]
    ELSE [self |-> self, none |-> TRUE]

FixedSetupSpread ==
    /\ \E spread_type \in {"single_card", "three_cards"}, user_name \in {"Anna", "Boris"} :
         fixed' = [session |-> setup_spread(fixed.session, spread_type,
                                  select_cards(Deck, get_spread_config(spread_type).card_count,
                                               7, 34),
                                  user_name, 34),
                   returned |-> "None"]
    /\ UNCHANGED <<user_states, users, sessions, journal, config, mctx,
                 transport, extractor, cleaner, selector, catalog,
                   readings, application, state_calls,
                   credit_calls, feedback>>

FixedBuildCompleteContext ==
    /\ \E preliminary_answers \in {<<>>, <<"work">>},
          additional_answers \in {<<>>, <<"yes">>} :
         LET b == build_complete_context(fixed.session, preliminary_answers,
                                         additional_answers)
         IN fixed' = [session |-> b.self,
                      returned |-> IF b.success THEN "True" ELSE "False"]
    /\ UNCHANGED <<user_states, users, sessions, journal, config, mctx,
                 transport, extractor, cleaner, selector, catalog,
                   readings, application, state_calls,
                   credit_calls, feedback>>

FixedGenerateCompleteInterpretation ==
    /\ \E o \in FinalOutcomes :
         LET g == generate_complete_interpretation(fixed.session, o)
         IN fixed' = [session |-> g.self,
                      returned |-> IF g.none THEN "None" ELSE "text"]
    /\ UNCHANGED <<user_states, users, sessions, journal, config, mctx,
                 transport, extractor, cleaner, selector, catalog,
                   readings, application, state_calls,
                   credit_calls, feedback>>

----------------------------------------------------------------------------
(* openrouter_client.send_request with its retries, and the wrapper         *)
(* TarotLLMAgent.send_request.  A model identifier is its parts between the *)
(* slashes; p is what the provider does to one HTTP request.                *)

stop_after_attempt == 5

\* the failures of an HTTP request, and the answers with status 200
ProviderFailures == {"ClientError", "TimeoutError", "status_not_200", "invalid_json",
                     "no_choices", "content_none"}
ProviderContents == { <<>>, <<"\n", "">>,
                      <<"", "reading", "of", "the", "cards", "\n">>,
                      <<"short", "reading">> }
ProviderOutcomes ==
    {[kind |-> k, content |-> NoText] : k \in ProviderFailures}
        \cup {[kind |-> "content", content |-> t] : t \in ProviderContents}

Histories == { <<>>, <<Msg("user", <<"hello">>)>>,
               <<Msg("system", <<"persona">>), Msg("user", <<"hello">>)>> }
Models == { <<>>, <<"gpt">>, <<"deepseek", "deepseek-chat">> }
ApiKeys == { "", "sk-key" }

Returned(text) == [raised |-> "none", text |-> text, http |-> TRUE]
Raised(error, http) == [raised |-> error, text |-> NoText, http |-> http]

\* one execution of the body of send_request: the arguments are checked,
\* then the request is made and its answer read
blank_content_returned(messages, model, api_key, p) ==
    IF api_key = "" \/ Len(model) < 2 \/ messages = <<>> THEN Raised("ValueError", FALSE)
    ELSE IF p.kind # "content" THEN Raised("OpenRouterError", TRUE)
         ELSE Returned(Strip(p.content))

send_request_body(messages, model, api_key, p) ==
    IF api_key = "" THEN Raised("ValueError", FALSE)
    ELSE IF Len(model) < 2 THEN Raised("ValueError", FALSE)
    ELSE IF messages = <<>> THEN Raised("ValueError", FALSE)
    ELSE IF p.kind # "content" THEN Raised("OpenRouterError", TRUE)
    ELSE IF Strip(p.content) = <<>> THEN Raised("OpenRouterError", TRUE)
    ELSE Returned(Strip(p.content))

\* retry_if_exception_type: inside the body aiohttp.ClientError and
\* asyncio.TimeoutError have become OpenRouterError already
retry_on_every_error(error) == error # "none"

retry_if_exception_type(error) ==
    error \in {"OpenRouterError", "ClientError", "TimeoutError"}

\* the answer of an attempt that made no request
NoAnswer == [kind |-> "none", content |-> NoText]

\* what the decorator makes of the attempt that just ended
retried(call, p) ==
    LET ended(r) ==
            [call EXCEPT
                !.attempt = @ + 1,
                !.requests = IF r.http THEN @ + 1 ELSE @,
                !.answer = IF r.http THEN p ELSE NoAnswer,
                !.text = r.text,
                !.error = r.raised,
                !.status =
                    IF r.raised = "none" THEN "returned"
                    ELSE IF retry_if_exception_type(r.raised)
                            /\ call.attempt + 1 < stop_after_attempt
                         THEN "waiting"
                         ELSE "raised"]
    IN ended(send_request_body(call.messages, call.model, call.api_key, p))

\* TarotLLMAgent.__init__ accepts a test model, or a model with a slash and a key
IsTestModel(model) == model # <<>> /\ model[1] = "test-model"
AgentModels == { <<"test-model">>, <<"deepseek", "deepseek-chat">> }

\* TarotLLMAgent.send_request: what it makes of the call it wraps once that
\* call is over
agent_send_request(call) ==
    IF call.via = "agent" /\ call.status = "raised"
    THEN [call EXCEPT !.error = "OpenRouterError"]
    ELSE call

NoTransport ==
    [via |-> "nobody", messages |-> <<>>, model |-> <<>>, api_key |-> "",
     status |-> "idle", attempt |-> 0, requests |-> 0, answer |-> NoAnswer,
     text |-> NoText, error |-> "none"]

NewCall(via, messages, model, api_key) ==
    [NoTransport EXCEPT !.via = via, !.messages = messages, !.model = model,
                        !.api_key = api_key, !.status = "calling"]

\* send_request is called and makes its first attempt
TransportSendRequest ==
    /\ transport.status \in {"idle", "returned", "raised"}
    /\ \E messages \in Histories, model \in Models, api_key \in ApiKeys,
          p \in ProviderOutcomes :
         transport' = retried(NewCall("send_request", messages, model, api_key), p)
    /\ UNCHANGED <<user_states, users, sessions, journal, config, mctx, fixed,
                   extractor, cleaner, selector, catalog,
                   readings, application, state_calls,
                   credit_calls, feedback>>

\* the agent's send_request is called: the mock of a test model, or the
\* first attempt of the call it wraps
TransportAgentSendRequest ==
    /\ transport.status \in {"idle", "returned", "raised"}
    /\ \E messages \in Histories, model \in AgentModels, p \in ProviderOutcomes :
         transport' =
            IF IsTestModel(model)
            THEN [NewCall("agent", messages, model, "") EXCEPT
                      !.status = "returned",
                      !.text = <<"Mock", "LLM", "response">>]
            ELSE agent_send_request(retried(NewCall("agent", messages, model, "sk-key"), p))
    /\ UNCHANGED <<user_states, users, sessions, journal, config, mctx, fixed,
                   extractor, cleaner, selector, catalog,
                   readings, application, state_calls,
                   credit_calls, feedback>>

\* the wait of the decorator is over: the next attempt
TransportRetry ==
    /\ transport.status = "waiting"
    /\ \E p \in ProviderOutcomes :
         transport' = agent_send_request(retried(transport, p))
    /\ UNCHANGED <<user_states, users, sessions, journal, config, mctx, fixed,
                   extractor, cleaner, selector, catalog,
                   readings, application, state_calls,
                   credit_calls, feedback>>

----------------------------------------------------------------------------
(* The extraction on its own: a session set up for a spread type is given   *)
(* the reply of QuestionsGeneration and stores the questions it extracts    *)
(* (generate_psychological_analysis, lines 129-130).                        *)

NoExtractor == [op |-> "__init__", spread_type |-> "", response |-> NoText,
                generated_questions |-> <<>>]

ExtractorSpreads == {"single_card", "three_cards", "horseshoe"}

\* replies put together from a bracketed block, a legacy block and an
\* ending, each there or not, with valid and invalid candidates
Responses ==
    LET bracketed ==
            { <<>>,
              <<"[QUESTIONS_START]", "\n", "Q1:", "what_troubles_you_now?", "\n",
                "Q2:", "what_do_you_expect?", "\n", "Q3:", "who_is_involved_here?", "\n",
                "Q4:", "what_next?", "\n", "Q5:", "really?", "or", "not", "\n",
                "[QUESTIONS_END]">>,
              <<"[QUESTIONS_START]", "Q1:", "why?", "Q2:", "tell_me_about_it", "\n",
                "Q3:", "question_of_501?", "Q4:", "", "question_of_500?", "\n",
                "Q5:", "what_now?", "Q6:", "what_next?", "[QUESTIONS_END]">>,
              <<"[QUESTIONS_START]", "Q1:", "why?", "Q2:", "tell_me_about_it",
                "[QUESTIONS_END]">>,
              <<"[QUESTIONS_START]", "no", "questions", "[QUESTIONS_END]">> }
        legacy ==
            { <<>>,
              <<"<QUESTIONS>", "\n", "1.", "what_troubles_you_now?", "\n", "",
                "2.", "", "what_do_you_expect?", "", "\n", "3.", "who_is_involved_here?",
                "\n", "</QUESTIONS>">>,
              <<"<QUESTIONS>", "1.", "why?", "\n", "2.", "tell_me_about_it", "\n",
                "what_do_you_expect?", "</QUESTIONS>">> }
        ending ==
            { <<>>,
              <<"thoughts", "without", "questions">>,
              <<"Vopros 1:", "what_troubles_you_now?", "\n",
                "Vopros 2:", "who_is_involved_here?">>,
              <<"Vopros 1:", "why?">>,
              <<"1.", "what_do_you_expect?">>,
              <<"-", "what_do_you_expect?">>,
              <<"1.", "what_troubles_you_now?", "\n", "Vopros 1:", "why?">> }
    IN { (<<"analysis">> \o b) \o (l \o e) : b \in bracketed, l \in legacy, e \in ending }

\* a session is set up for a spread type
ExtractorInitialize ==
    /\ extractor.op = "__init__"
    /\ \E spread_type \in ExtractorSpreads :
         extractor' = [NoExtractor EXCEPT !.op = "initialize_session",
                                          !.spread_type = spread_type]
    /\ UNCHANGED <<user_states, users, sessions, journal, config, mctx, fixed,
                   transport, cleaner, selector, catalog,
                   readings, application, state_calls,
                   credit_calls, feedback>>

\* the reply of QuestionsGeneration is there: the questions are extracted
\* and stored
ExtractorExtract ==
    /\ extractor.op # "__init__"
    /\ \E response \in Responses :
         extractor' =
            [extractor EXCEPT
                !.op = "generate_psychological_analysis",
                !.response = response,
                !.generated_questions =
                    _extract_questions_from_response(response, extractor.spread_type)]
    /\ UNCHANGED <<user_states, users, sessions, journal, config, mctx, fixed,
                   transport, cleaner, selector, catalog,
                   readings, application, state_calls,
                   credit_calls, feedback>>

----------------------------------------------------------------------------
(* The cleaning on its own: a session that holds the drawn cards is given   *)
(* the reply of FinalResponse and returns what it makes of it               *)
(* (generate_final_interpretation, lines 317-318).                          *)

NoCleaner == [op |-> "__init__", session |-> LLMSession, response |-> NoText,
              returned |-> NoText]

\* replies: a body that is short, repetitive, at one of the two limits or
\* fine, as it is, between the markers, or inside tags
FinalTexts ==
    LET body ==
            { <<>>,
              <<"\n", "">>,
              <<"ok">>,
              <<"transformation", "possibilities", "cards", "reveal", "paths", "ok">>,
              <<"possibilities", "relationships", "understanding", "cards", "ok">>,
              <<"again", "again", "again", "again", "again", "again",
                "again", "again", "again", "again", "again", "again">>,
              <<"cards", "cards", "cards", "cards", "reveal", "reveal", "reveal",
                "paths", "paths", "paths">>,
              <<"transformation", "transformation", "transformation", "transformation",
                "possibilities", "possibilities", "possibilities">>,
              <<"transformation", "possibilities", "\n", "", "\n", "\n",
                "relationships", "understanding">> }
    IN UNION { { b,
                 (<<"preface", "[INTERPRETATION_START]", "\n">> \o b)
                     \o <<"\n", "[INTERPRETATION_END]", "bye">>,
                 (<<"<b>">> \o b) \o <<"</b>", "\n">> } : b \in body }

\* a session is set up with the cards drawn, none to all of the deck
CleanerInitialize ==
    /\ cleaner.op = "__init__"
    /\ \E n \in 0..Len(Deck) :
         cleaner' = [cleaner EXCEPT
                        !.op = "initialize_session",
                        !.session = [@ EXCEPT
                            !.user_data = [name |-> "Anna", age |-> 34],
                            !.spread_data = [spread_type |-> "three_cards",
                                             cards |-> SubSeq(Deck, 1, n),
                                             questions |-> <<>>]]]
    /\ UNCHANGED <<user_states, users, sessions, journal, config, mctx, fixed,
                   transport, extractor, selector, catalog,
                   readings, application, state_calls,
                   credit_calls, feedback>>

\* the reply of FinalResponse is there: it is cleaned and returned
CleanerClean ==
    /\ cleaner.op # "__init__"
    /\ \E response \in FinalTexts :
         cleaner' = [cleaner EXCEPT
                        !.op = "generate_final_interpretation",
                        !.response = response,
                        !.returned = _clean_final_response(cleaner.session, response)]
    /\ UNCHANGED <<user_states, users, sessions, journal, config, mctx, fixed,
                   transport, extractor, selector, catalog,
                   readings, application, state_calls,
                   credit_calls, feedback>>

----------------------------------------------------------------------------
(* The selection on its own: calls of select_cards, by any session, and in  *)
(* between other uses of the generator (generate_random_magic_number calls  *)
(* random.randint).  drawn holds what each call was given and returned,     *)
(* again tells that some call repeated the arguments of an earlier one.     *)

NoSelector == [op |-> "__init__", random |-> 0, drawn |-> {}, again |-> FALSE]

SelectorSelectCards ==
    /\ \E count \in {1, 3}, magic_number \in {7, 12}, user_age \in {-1, 34} :
         LET selected == select_cards_seeded(selector.random, Deck, count,
                                             magic_number, user_age)
         IN selector' =
               [op |-> "select_cards",
                random |-> selected.state,
                drawn |-> selector.drawn \cup
                            {[count |-> count, magic_number |-> magic_number,
                              user_age |-> user_age, cards |-> selected.cards]},
                again |-> \/ selector.again
                          \/ \E d \in selector.drawn :
                                /\ d.count = count
                                /\ d.magic_number = magic_number
                                /\ d.user_age = user_age]
    /\ UNCHANGED <<user_states, users, sessions, journal, config, mctx, fixed,
                   transport, extractor, cleaner, catalog,
                   readings, application, state_calls,
                   credit_calls, feedback>>

SelectorRandomMagicNumber ==
    /\ selector' = [selector EXCEPT
                       !.op = "generate_random_magic_number",
                       !.random = random_randint(@, 1, 999).state]
    /\ UNCHANGED <<user_states, users, sessions, journal, config, mctx, fixed,
                   transport, extractor, cleaner, catalog,
                   readings, application, state_calls,
                   credit_calls, feedback>>


----------------------------------------------------------------------------
(* A TarotDeck and its callers.  _cards is the list loaded from the file,   *)
(* random the generator of the process.  returned is what the last call     *)
(* gave its caller and shared the positions of _cards whose dict the caller *)
(* holds itself, not a copy of it; given, seed and raised are those of the  *)
(* last call when it was a select_cards.                                    *)

LoadedCards == [i \in 1..Len(Deck) |-> [name |-> Deck[i], arcana |-> "Major Arcana"]]

NoArguments == [count |-> 0, magic_number |-> 0, user_age |-> 0]

NoCatalog ==
    [op |-> "__init__", _cards |-> LoadedCards, random |-> 0,
     given |-> NoArguments, seed |-> 0, raised |-> "none",
     returned |-> <<>>, shared |-> {}]

\* TarotDeck.cards: a copy of the list, of the same dicts
DeckCards ==
    /\ catalog' = [catalog EXCEPT
                      !.op = "cards", !.raised = "none",
                      !.given = NoArguments, !.seed = 0,
                      !.returned = catalog._cards,
                      !.shared = DOMAIN catalog._cards]
    /\ UNCHANGED <<user_states, users, sessions, journal, config, mctx, fixed,
                   transport, extractor, cleaner, selector,
                   readings, application, state_calls,
                   credit_calls, feedback>>

\* TarotDeck.get_card_by_index: a copy of the dict, None off the list
DeckGetCardByIndex ==
    /\ \E index \in -1..Len(Deck) :
         catalog' = [catalog EXCEPT
                        !.op = "get_card_by_index", !.raised = "none",
                        !.given = NoArguments, !.seed = 0,
                        !.returned = IF 0 <= index /\ index < Len(catalog._cards)
                                     THEN <<catalog._cards[index + 1]>> ELSE <<>>,
                        !.shared = {}]
    /\ UNCHANGED <<user_states, users, sessions, journal, config, mctx, fixed,
                   transport, extractor, cleaner, selector,
                   readings, application, state_calls,
                   credit_calls, feedback>>

DeckSelectCards ==
    /\ \E count \in {0, 1, 3, Len(Deck) + 1}, magic_number \in {0, 7, 12},
          user_age \in {-1, 0, 34} :
         LET selected == select_cards_seeded(catalog.random, catalog._cards, count,
                                             magic_number, user_age)
             given == [count |-> count, magic_number |-> magic_number,
                       user_age |-> user_age]
         IN catalog' =
               [catalog EXCEPT
                   !.op = "select_cards",
                   !.random = selected.state,
                   !.given = given,
                   !.seed = IF selected.raised = "none"
                            THEN complex_seed(magic_number, user_age) ELSE 0,
                   !.raised = selected.raised,
                   !.returned = selected.cards,
                   !.shared = {i \in DOMAIN catalog._cards :
                                  \E k \in DOMAIN selected.cards :
                                      selected.cards[k].name = catalog._cards[i].name}]
    /\ UNCHANGED <<user_states, users, sessions, journal, config, mctx, fixed,
                   transport, extractor, cleaner, selector,
                   readings, application, state_calls,
                   credit_calls, feedback>>

\* the caller writes into a card it was returned and lets go of what it
\* holds; the dict written is the deck's own when the caller was not given a
\* copy
CallerMutatesCard ==
    /\ catalog.returned # <<>>
    /\ \E k \in DOMAIN catalog.returned :
         LET changed(card) == [card EXCEPT !.arcana = "changed"]
             name == catalog.returned[k].name
         IN catalog' =
               [catalog EXCEPT
                   !.op = "caller", !.raised = "none",
                   !.given = NoArguments, !.seed = 0,
                   !.returned = <<>>,
                   !.shared = {},
                   !._cards = [i \in DOMAIN @ |->
                                  IF i \in catalog.shared /\ @[i].name = name
                                  THEN changed(@[i]) ELSE @[i]]]
    /\ UNCHANGED <<user_states, users, sessions, journal, config, mctx, fixed,
                   transport, extractor, cleaner, selector,
                   readings, application, state_calls,
                   credit_calls, feedback>>

\* the caller removes the first card of the list it was returned
CallerMutatesList ==
    /\ catalog.returned # <<>>
    /\ catalog' = [catalog EXCEPT
                      !.op = "caller", !.raised = "none",
                      !.given = NoArguments, !.seed = 0,
                      !.returned = Tail(@),
                      !.shared = {i \in @ : \E k \in 2..Len(catalog.returned) :
                                     catalog.returned[k].name = catalog._cards[i].name}]
    /\ UNCHANGED <<user_states, users, sessions, journal, config, mctx, fixed,
                   transport, extractor, cleaner, selector,
                   readings, application, state_calls,
                   credit_calls, feedback>>

----------------------------------------------------------------------------
(* The sessions of the chats as objects.  contexts holds the MessageContext *)
(* objects made so far, an object being known by its place in the list;     *)
(* llm_session gives, for a chat, the context of the session kept under     *)
(* data['llm_session'], 0 when the chat keeps none.                         *)

NoReadings ==
    [op |-> "__init__", chat_id |-> 0, contexts |-> <<>>,
     llm_session |-> [c \in Chats |-> 0]]

\* one MessageContext that every session uses
shared_context(contexts) == 1

\* self.context = MessageContext(task_prompt=None): an object of its own
new_context(contexts) == Len(contexts) + 1

\* start_llm_interpretation makes the session of a reading, keeps it under
\* the chat and has initialize_session add the persona
ReadingStart ==
    /\ Len(readings.contexts) < MaxSessions
    /\ \E chat_id \in Chats :
         LET context == new_context(readings.contexts)
             made == IF context > Len(readings.contexts)
                     THEN Append(readings.contexts, MessageContext(NoText))
                     ELSE readings.contexts
         IN readings' =
               [op |-> "start_llm_interpretation",
                chat_id |-> chat_id,
                contexts |-> [made EXCEPT ![context] =
                                 add_user_message(@, get_system_persona("Anna", 34))],
                llm_session |-> [readings.llm_session EXCEPT ![chat_id] = context]]
    /\ UNCHANGED <<user_states, users, sessions, journal, config, mctx, fixed,
                   transport, extractor, cleaner, selector, catalog,
                   application, state_calls,
                   credit_calls, feedback>>

\* a stage of the session of a chat: its instruction and the reply are added
\* to the context of that session
ReadingStage ==
    /\ \E chat_id \in Chats :
         LET context == readings.llm_session[chat_id]
             prompt(messages) == IF Len(messages) = 1
                                 THEN get_psychological_analysis_prompt(<<>>)
                                 ELSE get_context_analysis_prompt
         IN /\ context # 0
            /\ Len(readings.contexts[context].messages) < 5
            /\ readings' =
                  [readings EXCEPT
                      !.op = "stage",
                      !.chat_id = chat_id,
                      !.contexts[context] =
                          add_assistant_message(add_user_message(@, prompt(@.messages)),
                                                <<"reply">>)]
    /\ UNCHANGED <<user_states, users, sessions, journal, config, mctx, fixed,
                   transport, extractor, cleaner, selector, catalog,
                   application, state_calls,
                   credit_calls, feedback>>

\* the chat lets go of its session: clear_state drops the data of the chat
ReadingAbandon ==
    /\ \E chat_id \in Chats :
         /\ readings.llm_session[chat_id] # 0
         /\ readings' = [readings EXCEPT
                            !.op = "clear_state",
                            !.chat_id = chat_id,
                            !.llm_session[chat_id] = 0]
    /\ UNCHANGED <<user_states, users, sessions, journal, config, mctx, fixed,
                   transport, extractor, cleaner, selector, catalog,
                   application, state_calls,
                   credit_calls, feedback>>


----------------------------------------------------------------------------
(* The Application of python-telegram-bot as run_bot builds and runs it.    *)
(* Polling puts the updates on update_queue; the fetcher takes them from    *)
(* there and has them handled.  running holds the handlers that were begun  *)
(* and have not returned, each waiting for Transport at a stage and an      *)
(* attempt; handled holds the updates whose handler has returned.  An       *)
(* "answer" is the text that ends the questions of a reading and is handled *)
(* by the three stages of generate_interpretation_with_visual_progress, a   *)
(* "text" any message handled without Transport.                            *)

NoApplication ==
    [op |-> "__init__", received |-> 0, update_queue |-> <<>>, running |-> {},
     handled |-> {}]

\* an Application built with concurrent_updates(True)
updates_processed_concurrently == TRUE

\* Application.builder() ... .build() without concurrent_updates: the
\* fetcher awaits the handling of an update before it takes the next
concurrent_updates == FALSE

\* the stage after a stage of generate_interpretation_with_visual_progress,
\* "None" after the last
StageAfter(stage) ==
    CASE stage = CONTEXT_ANALYSIS -> SYNTHESIS
      [] stage = SYNTHESIS        -> FINAL_RESPONSE
      [] OTHER                    -> "None"

\* run_polling: an update of some chat is received
UpdateArrives ==
    /\ application.received < MaxUpdates
    /\ \E chat_id \in Chats, kind \in {"answer", "text"} :
         application' =
            [application EXCEPT
                !.op = "run_polling",
                !.received = @ + 1,
                !.update_queue = Append(@, [update |-> application.received + 1,
                                            chat_id |-> chat_id, kind |-> kind])]
    /\ UNCHANGED <<user_states, users, sessions, journal, config, mctx, fixed,
                   transport, extractor, cleaner, selector, catalog, readings,
                   state_calls,
                   credit_calls, feedback>>

\* the fetcher takes the next update and calls its handler: handle_text_message
\* answers a text at once and begins the stages for an answer
ProcessUpdate ==
    /\ application.update_queue # <<>>
    /\ concurrent_updates \/ application.running = {}
    /\ LET update == Head(application.update_queue)
       IN application' =
             [application EXCEPT
                 !.op = "process_update",
                 !.update_queue = Tail(@),
                 !.running = IF update.kind = "answer"
                             THEN @ \cup {[update |-> update.update,
                                           chat_id |-> update.chat_id,
                                           stage |-> CONTEXT_ANALYSIS,
                                           attempt |-> 1]}
                             ELSE @,
                 !.handled = IF update.kind = "answer" THEN @
                             ELSE @ \cup {update.update}]
    /\ UNCHANGED <<user_states, users, sessions, journal, config, mctx, fixed,
                   transport, extractor, cleaner, selector, catalog, readings,
                   state_calls,
                   credit_calls, feedback>>

\* the Transport call a handler waits for fails: it is made again after the
\* backoff, or, at the last attempt, the stage returns False and the handler
\* ends
HandlerTransportFails ==
    /\ \E h \in application.running :
         application' =
            [application EXCEPT
                !.op = "send_request",
                !.running = IF h.attempt < stop_after_attempt
                            THEN (@ \ {h}) \cup {[h EXCEPT !.attempt = @ + 1]}
                            ELSE @ \ {h},
                !.handled = IF h.attempt < stop_after_attempt THEN @
                            ELSE @ \cup {h.update}]
    /\ UNCHANGED <<user_states, users, sessions, journal, config, mctx, fixed,
                   transport, extractor, cleaner, selector, catalog, readings,
                   state_calls,
                   credit_calls, feedback>>

\* the Transport call a handler waits for is answered: the next stage
\* begins, or, after the last, the handler ends
HandlerTransportAnswers ==
    /\ \E h \in application.running :
         application' =
            [application EXCEPT
                !.op = "send_request",
                !.running = IF StageAfter(h.stage) # "None"
                            THEN (@ \ {h}) \cup {[h EXCEPT !.stage = StageAfter(@),
                                                            !.attempt = 1]}
                            ELSE @ \ {h},
                !.handled = IF StageAfter(h.stage) # "None" THEN @
                            ELSE @ \cup {h.update}]
    /\ UNCHANGED <<user_states, users, sessions, journal, config, mctx, fixed,
                   transport, extractor, cleaner, selector, catalog, readings,
                   state_calls,
                   credit_calls, feedback>>


----------------------------------------------------------------------------
(* simple_state on its own: its functions called for any chat, in any       *)
(* order.  seen holds the chats some call was made for, keep_data what the  *)
(* last call was given when it was a reset_to_idle.                         *)

NoStateCalls == [op |-> "__init__", chat_id |-> 0, keep_data |-> FALSE, seen |-> {}]

StateCalled(op, chat_id) ==
    [op |-> op, chat_id |-> chat_id, keep_data |-> FALSE,
     seen |-> state_calls.seen \cup {chat_id}]

StateSetState ==
    /\ \E chat_id \in Chats, state \in {IDLE, WAITING_NAME},
          data \in {<<>>, [name |-> "Anna"]} :
         /\ user_states' = set_state(user_states, chat_id, state, data)
         /\ state_calls' = StateCalled("set_state", chat_id)
    /\ UNCHANGED <<users, sessions, journal, config, mctx, fixed, transport,
                   extractor, cleaner, selector, catalog, readings, application,
                   credit_calls, feedback>>

StateUpdateData ==
    /\ \E chat_id \in Chats :
         /\ user_states' = update_data(user_states, chat_id, "magic_number", 7)
         /\ state_calls' = StateCalled("update_data", chat_id)
    /\ UNCHANGED <<users, sessions, journal, config, mctx, fixed, transport,
                   extractor, cleaner, selector, catalog, readings, application,
                   credit_calls, feedback>>

StateResetToIdle ==
    /\ \E chat_id \in Chats, keep_data \in BOOLEAN :
         /\ user_states' = reset_to_idle(user_states, chat_id, keep_data)
         /\ state_calls' = [StateCalled("reset_to_idle", chat_id) EXCEPT
                                !.keep_data = keep_data]
    /\ UNCHANGED <<users, sessions, journal, config, mctx, fixed, transport,
                   extractor, cleaner, selector, catalog, readings, application,
                   credit_calls, feedback>>

StateClearState ==
    /\ \E chat_id \in Chats :
         /\ user_states' = clear_state(user_states, chat_id)
         /\ state_calls' = StateCalled("clear_state", chat_id)
    /\ UNCHANGED <<users, sessions, journal, config, mctx, fixed, transport,
                   extractor, cleaner, selector, catalog, readings, application,
                   credit_calls, feedback>>

----------------------------------------------------------------------------
(* use_credit called from several threads.  _load_users and _save_users    *)
(* each hold _file_lock for the time of their own read or write of the     *)
(* file, so each is one step; between the two steps of a call the lock is  *)
(* free.  loaded is the dict the call got from _load_users.                *)

Threads == 1..NumThreads

\* the tariffs of the configuration and one that is not a tariff
CreditTariffs == Tariffs \cup {"premium"}

NoCreditCall == [pc |-> "idle", user_id |-> 0, tariff |-> "", loaded |-> <<>>,
                 returned |-> FALSE]

NoCreditCalls == [t \in Threads |-> NoCreditCall]

UseCreditCalled(t) ==
    /\ credit_calls[t].pc = "idle"
    /\ \E user_id \in Chats, tariff \in CreditTariffs :
         credit_calls' = [credit_calls EXCEPT ![t] =
             [NoCreditCall EXCEPT !.pc = "called", !.user_id = user_id,
                                  !.tariff = tariff]]
    /\ UNCHANGED <<user_states, users, sessions, journal, config, mctx, fixed,
                   transport, extractor, cleaner, selector, catalog, readings,
                   application, state_calls, feedback>>

\* users = _load_users()
UseCreditLoads(t) ==
    /\ credit_calls[t].pc = "called"
    /\ credit_calls' = [credit_calls EXCEPT ![t].pc = "loaded", ![t].loaded = users]
    /\ UNCHANGED <<user_states, users, sessions, journal, config, mctx, fixed,
                   transport, extractor, cleaner, selector, catalog, readings,
                   application, state_calls, feedback>>

\* one of the three early returns of False
UseCreditRefuses(t) ==
    /\ credit_calls[t].pc = "loaded"
    /\ ~can_use_credit(credit_calls[t].loaded, credit_calls[t].user_id,
                       credit_calls[t].tariff)
    /\ credit_calls' = [credit_calls EXCEPT ![t].pc = "returned",
                                            ![t].returned = FALSE]
    /\ UNCHANGED <<user_states, users, sessions, journal, config, mctx, fixed,
                   transport, extractor, cleaner, selector, catalog, readings,
                   application, state_calls, feedback>>

\* credits[tariff] -= 1 in the loaded dict, then _save_users(users)
UseCreditSaves(t) ==
    /\ credit_calls[t].pc = "loaded"
    /\ can_use_credit(credit_calls[t].loaded, credit_calls[t].user_id,
                      credit_calls[t].tariff)
    /\ users' = use_credit(credit_calls[t].loaded, credit_calls[t].user_id,
                           credit_calls[t].tariff)
    /\ credit_calls' = [credit_calls EXCEPT ![t].pc = "returned",
                                            ![t].returned = TRUE]
    /\ UNCHANGED <<user_states, sessions, journal, config, mctx, fixed,
                   transport, extractor, cleaner, selector, catalog, readings,
                   application, state_calls, feedback>>

----------------------------------------------------------------------------
(* feedback_system and spread_logger: the feedback on a delivered reading. *)
(* user_states is the dialogue state of the chat, log the feedback section *)
(* of the log file of the reading, keyboards the buttons under the         *)
(* messages of the bot, given_rating and given_comment what the user gave  *)
(* last for the reading delivered last, delivered the number of readings.  *)

NoRating == 0 - 1
NoComment == "None"
Ratings == 1..5
Comments == {"accurate", "vague"}
FeedbackChat == 1

NoFeedback ==
    [user_states |-> [c \in {FeedbackChat} |->
                        [state |-> IDLE,
                         data |-> [log_filepath |-> "", user_rating |-> NoRating,
                                   user_comment |-> NoComment]]],
     log |-> [rating |-> NoRating, comment |-> NoComment, status |-> ""],
     keyboards |-> <<>>,
     delivered |-> 0,
     given_rating |-> NoRating,
     given_comment |-> NoComment]

\* SpreadLogger.add_feedback: both fields of the section are written
add_feedback(log, rating, comment) ==
    [log EXCEPT !.rating = rating, !.comment = comment,
                !.status = "feedback_received"]

\* a reading is delivered: its log file exists, the feedback is asked for
RequestFeedback ==
    /\ feedback.delivered < MaxDeliveries
    /\ feedback' = [feedback EXCEPT
           !.user_states = set_state(update_data(@, FeedbackChat, "log_filepath", "log"),
                                     FeedbackChat, WAITING_FEEDBACK, <<>>),
           !.log = [rating |-> NoRating, comment |-> NoComment, status |-> "completed"],
           !.keyboards = Append(@, {"rate", "feedback_comment"}),
           !.delivered = @ + 1,
           !.given_rating = NoRating,
           !.given_comment = NoComment]
    /\ UNCHANGED <<user_states, users, sessions, journal, config, mctx, fixed,
                   transport, extractor, cleaner, selector, catalog, readings,
                   application, state_calls, credit_calls>>

\* a star button of message i
HandleRating ==
    /\ \E i \in DOMAIN feedback.keyboards, rating \in Ratings :
         /\ "rate" \in feedback.keyboards[i]
         /\ LET session_data == get_user_data(feedback.user_states, FeedbackChat)
                stored == update_data(feedback.user_states, FeedbackChat,
                                      "user_rating", rating)
                existing_comment == session_data.user_comment
            IN feedback' = [feedback EXCEPT
                   !.log = IF session_data.log_filepath # ""
                           THEN add_feedback(@, rating, NoComment) ELSE @,
                   !.user_states = IF existing_comment # NoComment
                                   THEN reset_to_idle(stored, FeedbackChat, FALSE)
                                   ELSE stored,
                   !.keyboards[i] = IF existing_comment # NoComment
                                    THEN {} ELSE {"feedback_comment"},
                   !.given_rating = rating]
    /\ UNCHANGED <<user_states, users, sessions, journal, config, mctx, fixed,
                   transport, extractor, cleaner, selector, catalog, readings,
                   application, state_calls, credit_calls>>

\* the comment button of message i
RequestComment ==
    /\ \E i \in DOMAIN feedback.keyboards :
         /\ "feedback_comment" \in feedback.keyboards[i]
         /\ feedback' = [feedback EXCEPT
                !.user_states = set_state(@, FeedbackChat, WAITING_COMMENT, <<>>),
                !.keyboards[i] = {"feedback_cancel"}]
    /\ UNCHANGED <<user_states, users, sessions, journal, config, mctx, fixed,
                   transport, extractor, cleaner, selector, catalog, readings,
                   application, state_calls, credit_calls>>

\* a text sent while the comment is waited for
HandleComment ==
    /\ get_state(feedback.user_states, FeedbackChat) = WAITING_COMMENT
    /\ \E comment \in Comments :
         LET session_data == get_user_data(feedback.user_states, FeedbackChat)
             stored == update_data(feedback.user_states, FeedbackChat,
                                   "user_comment", comment)
             existing_rating == session_data.user_rating
         IN feedback' = [feedback EXCEPT
                !.log = IF session_data.log_filepath # ""
                        THEN add_feedback(@, 0, comment) ELSE @,
                !.user_states = IF existing_rating > 0
                                THEN reset_to_idle(stored, FeedbackChat, FALSE)
                                ELSE set_state(stored, FeedbackChat,
                                               WAITING_FEEDBACK, <<>>),
                !.keyboards = Append(@, {"rate"}),
                !.given_comment = comment]
    /\ UNCHANGED <<user_states, users, sessions, journal, config, mctx, fixed,
                   transport, extractor, cleaner, selector, catalog, readings,
                   application, state_calls, credit_calls>>

\* the cancel button of message i
CancelFeedback ==
    /\ \E i \in DOMAIN feedback.keyboards :
         /\ "feedback_cancel" \in feedback.keyboards[i]
         /\ feedback' = [feedback EXCEPT
                !.user_states = reset_to_idle(@, FeedbackChat, FALSE),
                !.keyboards[i] = {}]
    /\ UNCHANGED <<user_states, users, sessions, journal, config, mctx, fixed,
                   transport, extractor, cleaner, selector, catalog, readings,
                   application, state_calls, credit_calls>>

----------------------------------------------------------------------------
(* The bot: one action per update handled (handle_callback and             *)
(* handle_text_message dispatch on the callback data and on the state)     *)

StoredUser == [registered |-> TRUE, name |-> "Anna", age |-> 34,
               credits |-> [beginner |-> 1, expert |-> 0]]

NoJournal == [readings |-> 0, made |-> 0, reply |-> "", shown |-> NoText,
              feedback_offered |-> FALSE, paid |-> FALSE, asked |-> <<>>]

\* nothing in memory after a start; the users file holds the users of the
\* even chats
Init ==
    /\ user_states = [c \in Chats |-> [state |-> IDLE, data |-> NoData]]
    /\ users = [c \in Chats |-> IF c % 2 = 0 THEN StoredUser ELSE NoUser]
    /\ sessions = [c \in Chats |-> LLMSession]
    /\ journal = [c \in Chats |-> NoJournal]
    /\ config \in [use_magic_numbers : BOOLEAN]
    /\ mctx = NoContext
    /\ fixed = NoFixedSession
    /\ transport = NoTransport
    /\ extractor = NoExtractor
    /\ cleaner = NoCleaner
    /\ selector = NoSelector
    /\ catalog = NoCatalog
    /\ readings = NoReadings
    /\ application = NoApplication
    /\ state_calls = NoStateCalls
    /\ credit_calls = NoCreditCalls
    /\ feedback = NoFeedback

RECURSIVE ReadingsStarted(_)
ReadingsStarted(n) == IF n = 0 THEN 0 ELSE journal[n].readings + ReadingsStarted(n - 1)

TariffCallback(c) ==
    /\ ReadingsStarted(NumChats) < MaxReadings
    /\ \E tariff_key \in Tariffs, spread_type \in Spreads, random_magic \in RandomMagic :
         \E os \in Scripts :
            Becomes([handle_tariff_selection(
                         Begin(c), c, tariff_key, spread_type, random_magic, os)
                     EXCEPT !.journal[c].readings = @ + 1])

NameMessage(c) ==
    /\ get_state(user_states, c) = WAITING_NAME
    /\ \E user_input \in Names : Becomes(process_name(Begin(c), c, user_input))

BirthdateMessage(c) ==
    /\ get_state(user_states, c) = WAITING_BIRTHDATE
    /\ \E user_input \in Ages, random_magic \in RandomMagic :
         \E os \in Scripts :
            Becomes(process_birthdate(Begin(c), c, user_input, random_magic, os))

MagicNumberMessage(c) ==
    /\ get_state(user_states, c) = WAITING_MAGIC_NUMBER
    /\ \E user_input \in MagicNumbers :
         \E os \in Scripts :
            Becomes(process_magic_number(Begin(c), c, user_input, os))

PreliminaryAnswerMessage(c) ==
    /\ get_state(user_states, c) = WAITING_PRELIMINARY_ANSWERS
    /\ \E user_input \in Answers :
         \E os \in Scripts :
            Becomes(process_preliminary_answers(Begin(c), c, user_input, os))

LLMAnswerMessage(c) ==
    /\ get_state(user_states, c) = WAITING_LLM_QUESTIONS
    /\ \E user_input \in Answers :
         \E os \in Scripts :
            Becomes(process_llm_questions(Begin(c), c, user_input, os))

\* a text in IDLE or in a state without a text handler: the menu hint
OtherMessage(c) ==
    /\ get_state(user_states, c) \in {IDLE, PROCESSING_INTERPRETATION, WAITING_FEEDBACK}
    /\ journal[c].reply # "menu_hint"
    /\ Becomes(Say(Begin(c), c, "menu_hint"))

\* a button of the feedback keyboard, there once a reading was delivered
FeedbackCallback(c) ==
    /\ journal[c].feedback_offered
    /\ journal[c].reply # "thanks_for_feedback"
    /\ Becomes(handle_feedback(Begin(c), c))

Next ==
    \E c \in Chats :
        \/ TariffCallback(c)
        \/ NameMessage(c)
        \/ BirthdateMessage(c)
        \/ MagicNumberMessage(c)
        \/ PreliminaryAnswerMessage(c)
        \/ LLMAnswerMessage(c)
        \/ OtherMessage(c)
        \/ FeedbackCallback(c)

Spec == Init /\ [][Next]_vars

\* a context constructed with or without a task prompt, and calls of its methods
CtxInit ==
    /\ user_states = [c \in Chats |-> [state |-> IDLE, data |-> NoData]]
    /\ users = [c \in Chats |-> NoUser]
    /\ sessions = [c \in Chats |-> LLMSession]
    /\ journal = [c \in Chats |-> NoJournal]
    /\ config = [use_magic_numbers |-> FALSE]
    /\ \E task_prompt \in TaskPrompts :
         mctx = [NoContext EXCEPT !.ctx = MessageContext(task_prompt),
                                  !.initial = task_prompt]
    /\ fixed = NoFixedSession
    /\ transport = NoTransport
    /\ extractor = NoExtractor
    /\ cleaner = NoCleaner
    /\ selector = NoSelector
    /\ catalog = NoCatalog
    /\ readings = NoReadings
    /\ application = NoApplication
    /\ state_calls = NoStateCalls
    /\ credit_calls = NoCreditCalls
    /\ feedback = NoFeedback

CtxNext ==
    \/ CtxAddUser
    \/ CtxAddAssistant
    \/ CtxAddSystem
    \/ CtxClear
    \/ CtxUpdateTaskPrompt

CtxSpec == CtxInit /\ [][CtxNext]_vars

\* a FixedLLMSession just constructed, and calls of its methods
FixedInit ==
    /\ user_states = [c \in Chats |-> [state |-> IDLE, data |-> NoData]]
    /\ users = [c \in Chats |-> NoUser]
    /\ sessions = [c \in Chats |-> LLMSession]
    /\ journal = [c \in Chats |-> NoJournal]
    /\ config = [use_magic_numbers |-> FALSE]
    /\ mctx = NoContext
    /\ fixed = NoFixedSession
    /\ transport = NoTransport
    /\ extractor = NoExtractor
    /\ cleaner = NoCleaner
    /\ selector = NoSelector
    /\ catalog = NoCatalog
    /\ readings = NoReadings
    /\ application = NoApplication
    /\ state_calls = NoStateCalls
    /\ credit_calls = NoCreditCalls
    /\ feedback = NoFeedback

FixedNext ==
    \/ FixedSetupSpread
    \/ FixedBuildCompleteContext
    \/ FixedGenerateCompleteInterpretation

FixedSpec == FixedInit /\ [][FixedNext]_vars

\* the bot at rest, for the machines that do not involve it
BotAtRest ==
    /\ user_states = [c \in Chats |-> [state |-> IDLE, data |-> NoData]]
    /\ users = [c \in Chats |-> NoUser]
    /\ sessions = [c \in Chats |-> LLMSession]
    /\ journal = [c \in Chats |-> NoJournal]
    /\ config = [use_magic_numbers |-> FALSE]
    /\ mctx = NoContext
    /\ fixed = NoFixedSession

\* no call of send_request made yet
TransportInit ==
    /\ BotAtRest
    /\ transport = NoTransport
    /\ extractor = NoExtractor
    /\ cleaner = NoCleaner
    /\ selector = NoSelector
    /\ catalog = NoCatalog
    /\ readings = NoReadings
    /\ application = NoApplication
    /\ state_calls = NoStateCalls
    /\ credit_calls = NoCreditCalls
    /\ feedback = NoFeedback

TransportNext ==
    \/ TransportSendRequest
    \/ TransportAgentSendRequest
    \/ TransportRetry

TransportSpec == TransportInit /\ [][TransportNext]_vars

\* the wait between two attempts is finite (wait_random_exponential, max=300)
TransportLiveSpec == TransportSpec /\ WF_vars(TransportRetry)

\* a session just constructed, to be given replies to extract from
ExtractorInit ==
    /\ BotAtRest
    /\ transport = NoTransport
    /\ extractor = NoExtractor
    /\ cleaner = NoCleaner
    /\ selector = NoSelector
    /\ catalog = NoCatalog
    /\ readings = NoReadings
    /\ application = NoApplication
    /\ state_calls = NoStateCalls
    /\ credit_calls = NoCreditCalls
    /\ feedback = NoFeedback

ExtractorNext ==
    \/ ExtractorInitialize
    \/ ExtractorExtract

ExtractorSpec == ExtractorInit /\ [][ExtractorNext]_vars

\* a session just constructed, to be given final replies to clean
CleanerInit ==
    /\ BotAtRest
    /\ transport = NoTransport
    /\ extractor = NoExtractor
    /\ cleaner = NoCleaner
    /\ selector = NoSelector
    /\ catalog = NoCatalog
    /\ readings = NoReadings
    /\ application = NoApplication
    /\ state_calls = NoStateCalls
    /\ credit_calls = NoCreditCalls
    /\ feedback = NoFeedback

CleanerNext ==
    \/ CleanerInitialize
    \/ CleanerClean

CleanerSpec == CleanerInit /\ [][CleanerNext]_vars

\* the deck loaded, the generator in any state, no card drawn yet
SelectorInit ==
    /\ BotAtRest
    /\ transport = NoTransport
    /\ extractor = NoExtractor
    /\ cleaner = NoCleaner
    /\ \E state \in 0..(MaxRandomStates - 1) :
         selector = [NoSelector EXCEPT !.random = state]
    /\ catalog = NoCatalog
    /\ readings = NoReadings
    /\ application = NoApplication
    /\ state_calls = NoStateCalls
    /\ credit_calls = NoCreditCalls
    /\ feedback = NoFeedback

SelectorNext ==
    \/ SelectorSelectCards
    \/ SelectorRandomMagicNumber

SelectorSpec == SelectorInit /\ [][SelectorNext]_vars

\* the deck as loaded, the generator in any state
DeckInit ==
    /\ BotAtRest
    /\ transport = NoTransport
    /\ extractor = NoExtractor
    /\ cleaner = NoCleaner
    /\ selector = NoSelector
    /\ \E state \in 0..(MaxRandomStates - 1) :
         catalog = [NoCatalog EXCEPT !.random = state]
    /\ readings = NoReadings
    /\ application = NoApplication
    /\ state_calls = NoStateCalls
    /\ credit_calls = NoCreditCalls
    /\ feedback = NoFeedback

DeckNext ==
    \/ DeckCards
    \/ DeckGetCardByIndex
    \/ DeckSelectCards
    \/ CallerMutatesCard
    \/ CallerMutatesList

DeckSpec == DeckInit /\ [][DeckNext]_vars

StateInit ==
    /\ BotAtRest
    /\ transport = NoTransport
    /\ extractor = NoExtractor
    /\ cleaner = NoCleaner
    /\ selector = NoSelector
    /\ catalog = NoCatalog
    /\ readings = NoReadings
    /\ application = NoApplication
    /\ state_calls = NoStateCalls
    /\ credit_calls = NoCreditCalls
    /\ feedback = NoFeedback

StateNext ==
    \/ StateSetState
    \/ StateUpdateData
    \/ StateResetToIdle
    \/ StateClearState

StateSpec == StateInit /\ [][StateNext]_vars

ReadingsInit ==
    /\ BotAtRest
    /\ transport = NoTransport
    /\ extractor = NoExtractor
    /\ cleaner = NoCleaner
    /\ selector = NoSelector
    /\ catalog = NoCatalog
    /\ readings = NoReadings
    /\ application = NoApplication
    /\ state_calls = NoStateCalls
    /\ credit_calls = NoCreditCalls
    /\ feedback = NoFeedback

ReadingsNext ==
    \/ ReadingStart
    \/ ReadingStage
    \/ ReadingAbandon

ReadingsSpec == ReadingsInit /\ [][ReadingsNext]_vars

ApplicationInit ==
    /\ BotAtRest
    /\ transport = NoTransport
    /\ extractor = NoExtractor
    /\ cleaner = NoCleaner
    /\ selector = NoSelector
    /\ catalog = NoCatalog
    /\ readings = NoReadings
    /\ application = NoApplication
    /\ state_calls = NoStateCalls
    /\ credit_calls = NoCreditCalls
    /\ feedback = NoFeedback

ApplicationNext ==
    \/ UpdateArrives
    \/ ProcessUpdate
    \/ HandlerTransportFails
    \/ HandlerTransportAnswers

ApplicationSpec == ApplicationInit /\ [][ApplicationNext]_vars

----------------------------------------------------------------------------
(* Transport failures during a reading.  sessions[c].calls holds the        *)
(* Transport calls of the reading of chat c, in the order they were made.   *)

\* C1: if the Transport call of a stage fails the reading is aborted, no
\* later stage of that reading issues a Transport call
C1_FailureAbortsReading ==
    \A c \in Chats :
        \A i \in 1..Len(sessions[c].calls) :
            ~sessions[c].calls[i].ok => i = Len(sessions[c].calls)

\* C2: a Transport error that exhausted its retries leaves the stage as a
\* raised error, never as a normal return value
C2_FailureIsRaised ==
    \A c \in Chats :
        \A i \in 1..Len(sessions[c].calls) :
            ~sessions[c].calls[i].ok => sessions[c].calls[i].ended = "raised"

\* C3: when the last Transport call made while an update was handled has
\* failed, the dialogue state of the chat is IDLE once the update is handled
C3_FailureReturnsToIdle ==
    \A c \in Chats :
        LET calls == HandlerCalls(World, c)
        IN (calls # <<>> /\ ~calls[Len(calls)].ok) => get_state(user_states, c) = IDLE

\* C4: after a Transport failure the user is shown the apology of the class
\* of the failure, the one handle_llm_error picks for it
C4_ApologyByFailureClass ==
    \A c \in Chats :
        LET calls == HandlerCalls(World, c)
        IN (calls # <<>> /\ ~calls[Len(calls)].ok) =>
               journal[c].reply =
                   handle_llm_error(World, c, TRUE, calls[Len(calls)].err).journal[c].reply

----------------------------------------------------------------------------
(* The order of the stages *)

\* C5: in a reading that completes the Transport calls are those of
\* QuestionsGeneration, ContextAnalysis, Synthesis and FinalResponse in this
\* order, one per stage, each made after the previous one returned; and the
\* current stage of a session never moves backwards
C5_StrictStageOrder ==
    \A c \in Chats :
        LET calls == sessions[c].calls
            rank(stage) ==
                CASE stage = "None"                 -> 0
                  [] stage = SYSTEM                 -> 1
                  [] stage = SPREAD_CONTEXT         -> 2
                  [] stage = PSYCHOLOGICAL_ANALYSIS -> 3
                  [] stage = CONTEXT_ANALYSIS       -> 4
                  [] stage = SYNTHESIS              -> 5
                  [] stage = FINAL_RESPONSE         -> 6
        IN /\ \A i \in 1..Len(calls) :
                /\ rank(calls[i].stage_before) <= rank(calls[i].stage_after)
                /\ calls[i].ended = "returned"
                /\ i > 1 => rank(calls[i - 1].stage_after) <= rank(calls[i].stage_before)
           /\ (calls # <<>> => rank(calls[Len(calls)].stage_after)
                                  <= rank(sessions[c].current_stage))
           /\ journal[c].reply = "interpretation" =>
                  [i \in 1..Len(calls) |-> calls[i].stage]
                      = <<PSYCHOLOGICAL_ANALYSIS, CONTEXT_ANALYSIS, SYNTHESIS, FINAL_RESPONSE>>

\* a reading completed with every stage answered
C5_Witness ==
    \E c \in Chats :
        /\ journal[c].reply = "interpretation"
        /\ Len(sessions[c].calls) = 4
        /\ \A i \in 1..4 : sessions[c].calls[i].ok
        /\ sessions[c].current_stage = FINAL_RESPONSE

----------------------------------------------------------------------------
(* The growth of the history *)

\* C6 as stated: an answered call of a non-terminal stage makes the history
\* one message longer
C6_GrowsByOne ==
    \A c \in Chats :
        \A i \in 1..Len(sessions[c].calls) :
            LET call == sessions[c].calls[i]
            IN (call.ok /\ call.stage \in {PSYCHOLOGICAL_ANALYSIS, CONTEXT_ANALYSIS, SYNTHESIS})
                   => call.len_after = call.len_before + 1

\* C6: an answered call of a non-terminal stage appends the user messages
\* of the stage (its instruction, and before it the preliminary answers when
\* QuestionsGeneration is given some) and then the reply as one assistant
\* message: the history grows by 2, or by 3 with preliminary answers
C6_GrowsByPromptAndReply ==
    \A c \in Chats :
        \A i \in 1..Len(sessions[c].calls) :
            LET call == sessions[c].calls[i]
                messages == sessions[c].context.messages
                answers ==
                    IF /\ call.stage = PSYCHOLOGICAL_ANALYSIS
                       /\ Head(messages[call.len_before + 1].text) = "PRELIMINARY_ANSWERS:"
                    THEN 1 ELSE 0
            IN (call.ok /\ call.stage \in {PSYCHOLOGICAL_ANALYSIS, CONTEXT_ANALYSIS, SYNTHESIS})
                   => /\ call.len_after = call.len_before + 2 + answers
                      /\ messages[call.len_after] = Msg("assistant", call.reply)
                      /\ \A k \in (call.len_before + 1)..(call.len_after - 1) :
                             messages[k].role = "user"

\* a reading where QuestionsGeneration was given preliminary answers and was
\* answered, and so were ContextAnalysis and Synthesis
C6_Witness ==
    \E c \in Chats :
        LET calls == sessions[c].calls
        IN /\ Len(calls) >= 3
           /\ \A i \in 1..3 : calls[i].ok
           /\ calls[1].len_after = calls[1].len_before + 3
           /\ calls[3].stage = SYNTHESIS
           /\ calls[3].len_after = calls[3].len_before + 2

----------------------------------------------------------------------------
(* The final stage *)

\* C7: FinalResponse appends its instruction and not the reply, and the
\* text delivered is the reply cleaned and validated: the cleaned reply when
\* it passes the validation, the fallback text otherwise
C7_FinalReplyNotAppended ==
    \A c \in Chats :
        LET calls == sessions[c].calls
            messages == sessions[c].context.messages
        IN /\ \A i \in 1..Len(calls) :
                calls[i].stage = FINAL_RESPONSE =>
                    /\ i = Len(calls)
                    /\ calls[i].len_after = calls[i].len_before + 1
                    /\ Len(messages) = calls[i].len_after
                    /\ messages[Len(messages)] = Msg("user", get_final_response_prompt)
           /\ journal[c].reply = "interpretation" =>
                /\ calls # <<>>
                /\ calls[Len(calls)].stage = FINAL_RESPONSE
                /\ calls[Len(calls)].ok
                /\ journal[c].shown = _clean_final_response(sessions[c], calls[Len(calls)].reply)
                /\ \/ _validate_interpretation(journal[c].shown)
                   \/ journal[c].shown = _get_fallback_interpretation(sessions[c])
                /\ Range(journal[c].shown) \cap
                       ({"[INTERPRETATION_START]", "[INTERPRETATION_END]"} \cup Tags) = {}

\* a reading delivered a text that the cleaning changed and the validation
\* accepted
C7_Witness ==
    \E c \in Chats :
        /\ journal[c].reply = "interpretation"
        /\ sessions[c].calls # <<>>
        /\ journal[c].shown # sessions[c].calls[Len(sessions[c].calls)].reply
        /\ journal[c].shown # _get_fallback_interpretation(sessions[c])
        /\ _validate_interpretation(journal[c].shown)

----------------------------------------------------------------------------
(* The context on its own *)

\* C8: a context constructed with a task prompt holds no message until the
\* first add_user_message; after that call the history is the system message
\* and the user message; and the system message is the first message of
\* every later history that is not empty
C8_SystemPromptFirst ==
    mctx.initial # NoText =>
        /\ mctx.user_adds = 0 => mctx.ctx.messages = <<>>
        /\ (mctx.user_adds = 1 /\ mctx.op = "add_user_message") =>
               /\ Len(mctx.ctx.messages) = 2
               /\ mctx.ctx.messages[1] = Msg("system", mctx.initial)
               /\ mctx.ctx.messages[2].role = "user"
        /\ (mctx.user_adds > 0 /\ mctx.ctx.messages # <<>>) =>
               mctx.ctx.messages[1] = Msg("system", mctx.initial)

\* C9: the context of a session is append-only, the history before an
\* operation of the session is a prefix of the history after it
C9_AppendOnly ==
    [][IsPrefix(fixed.session.context.messages, fixed.session.context.messages')]_vars

----------------------------------------------------------------------------
(* The session after initialize_session *)

\* C10: once initialize_session has run, the first message of the context is
\* the system persona prompt and its role is system
C10_FirstMessageIsSystemPersona ==
    \A c \in Chats :
        sessions[c].current_stage # "None" =>
            /\ sessions[c].context.messages # <<>>
            /\ sessions[c].context.messages[1] =
                   Msg("system", get_system_persona(sessions[c].user_data.name,
                                                    sessions[c].user_data.age))

----------------------------------------------------------------------------
(* The Transport.  transport holds the call of send_request in progress or  *)
(* the last one made: its attempts so far, the HTTP requests issued, the    *)
(* provider's answer to the last of them and how the call stands.           *)

\* C11: what send_request returns is never empty and carries no whitespace
\* at its ends, and an answer with no choices, with no content or with
\* blank content is an OpenRouterError: retried, raised when the attempts
\* are used up, never returned
C11_NeverEmptyText ==
    /\ transport.status = "returned" =>
           /\ transport.text # <<>>
           /\ Range(transport.text) \cap Space # Range(transport.text)
           /\ Strip(transport.text) = transport.text
    /\ ( \/ transport.answer.kind \in {"no_choices", "content_none"}
         \/ transport.answer.kind = "content" /\ Strip(transport.answer.content) = <<>> )
           => /\ transport.status \in {"waiting", "raised"}
              /\ transport.error = "OpenRouterError"
              /\ transport.text = NoText
              /\ transport.status = "waiting" <=> transport.attempt < 5

\* the fifth attempt was answered with blank content and the call raised
C11_Witness ==
    /\ transport.status = "raised"
    /\ transport.attempt = 5
    /\ transport.answer.kind = "content"
    /\ transport.answer.content # <<>>

\* C12: a call of send_request makes 5 attempts at most and ends, with a
\* reply or with an error; an attempt after the first is made only when the
\* attempt before it made its request and failed with an OpenRouterError
\* (an HTTP, network, timeout or answer failure)
C12_AtMostFiveAttempts ==
    /\ [](/\ transport.attempt <= 5
          /\ transport.attempt = 5 => transport.status \in {"returned", "raised"})
    /\ [][transport'.attempt > 1 =>
             /\ transport'.attempt = transport.attempt + 1
             /\ transport.status = "waiting"
             /\ transport.error = "OpenRouterError"
             /\ transport.answer # NoAnswer
             /\ transport.requests = transport.attempt]_vars
    /\ (transport.status = "waiting") ~> (transport.status \in {"returned", "raised"})

\* four attempts failed and the fifth was given a reply
C12_Witness ==
    /\ transport.attempt = 5
    /\ transport.requests = 5
    /\ transport.status = "returned"

\* C13: a call with an empty history, an empty model identifier or an empty
\* key fails with the argument error (ValueError) in its first attempt,
\* without an HTTP request and without a retry
C13_ArgumentErrorAtOnce ==
    ( /\ transport.status # "idle"
      /\ \/ transport.messages = <<>>
         \/ transport.model = <<>>
         \/ transport.api_key = "" )
        => /\ transport.status = "raised"
           /\ transport.error = "ValueError"
           /\ transport.attempt = 1
           /\ transport.requests = 0

----------------------------------------------------------------------------
(* The extraction of the clarifying questions *)

\* C14: the questions a session stores are never more than the cap of its
\* spread type, and they are the first cap of the valid candidates, in the
\* order of the reply, when there are more
C14_QuestionsCapped ==
    extractor.op = "generate_psychological_analysis" =>
        LET cap == CASE extractor.spread_type = "single_card" -> 2
                     [] extractor.spread_type = "three_cards" -> 3
                     [] extractor.spread_type = "horseshoe"   -> 4
            candidates == ExtractedQuestions(extractor.response)
        IN /\ Len(extractor.generated_questions) <= cap
           /\ extractor.generated_questions = Take(candidates, cap)

\* a reply with five valid candidates for a spread type capped at 2
C14_Witness ==
    /\ extractor.op = "generate_psychological_analysis"
    /\ extractor.spread_type = "single_card"
    /\ Len(ExtractedQuestions(extractor.response)) = 5
    /\ extractor.generated_questions =
           << <<"what_troubles_you_now?">>, <<"what_do_you_expect?">> >>

\* C15: every question stored has 10 to 500 characters and a question mark
C15_QuestionsValid ==
    \A i \in 1..Len(extractor.generated_questions) :
        LET question == extractor.generated_questions[i]
        IN /\ QCharLen(question) >= 10
           /\ QCharLen(question) <= 500
           /\ \E k \in 1..Len(question) : question[k] \in QMarkToks
           /\ Strip(question) = question

\* a block with a candidate too short, one without question mark, one too
\* long, and candidates of 500 and of 10 characters: these two are stored
C15_Witness ==
    /\ extractor.spread_type = "horseshoe"
    /\ extractor.generated_questions = << <<"question_of_500?">>, <<"what_next?">> >>
    /\ "question_of_501?" \in Range(extractor.response)
    /\ "what_now?" \in Range(extractor.response)

\* C16: the stored questions are those of the first of bracketed block,
\* legacy block, and the three generic patterns in turn, that yields a valid
\* question; nothing is stored only when none of them yields one
C16_FirstYieldingStrategy ==
    extractor.op = "generate_psychological_analysis" =>
        LET response == extractor.response
            yields ==
                << BracketedQuestions(response),
                   LegacyQuestions(response),
                   ValidStripped(VoprosMatches(response)),
                   ValidStripped(UpToFinalQMark(response, NumLabels)),
                   ValidStripped(UpToFinalQMark(response, Bullets)) >>
            first == IF \E k \in 1..5 : yields[k] # <<>>
                     THEN yields[CHOOSE k \in 1..5 :
                                    /\ yields[k] # <<>>
                                    /\ \A j \in 1..(k - 1) : yields[j] = <<>>]
                     ELSE <<>>
        IN extractor.generated_questions =
               Take(first, max_questions(extractor.spread_type))

----------------------------------------------------------------------------
(* A reading without clarifying questions *)

\* C17: when QuestionsGeneration was answered and no question was extracted
\* from the reply, the update is handled without an error, the chat is not
\* left waiting for answers, no answers message is in the context, and the
\* next Transport call is that of ContextAnalysis, made with nothing
\* appended in between but its instruction
C17_NoQuestionsSkipsAhead ==
    \A c \in Chats :
        LET calls == sessions[c].calls
            messages == sessions[c].context.messages
        IN (calls # <<>> /\ calls[1].ok /\ sessions[c].generated_questions = <<>>) =>
               /\ calls[1].stage = PSYCHOLOGICAL_ANALYSIS
               /\ calls[1].ended = "returned"
               /\ get_state(user_states, c) # WAITING_LLM_QUESTIONS
               /\ \A k \in 1..Len(messages) : Head(messages[k].text) # "QUESTION_ANSWERS:"
               /\ Len(calls) >= 2
               /\ calls[2].stage = CONTEXT_ANALYSIS
               /\ calls[2].len_before = calls[1].len_after
               /\ journal[c].made > 0 =>
                      journal[c].reply \in {"interpretation", "interpretation_failed"}

\* a reply without questions, and the reading went on to its end
C17_Witness ==
    \E c \in Chats :
        /\ Len(sessions[c].calls) = 4
        /\ sessions[c].calls[1].ok
        /\ sessions[c].calls[1].reply = <<"analysis", "without", "questions">>
        /\ sessions[c].generated_questions = <<>>
        /\ journal[c].reply = "interpretation"

----------------------------------------------------------------------------
(* The cleaning of the final reply *)

\* C18: when the cleaned reply has fewer than 50 characters, or fewer than
\* 3 different words in 10, what FinalResponse returns is the fallback text
\* of the session; and what it returns is never empty
C18_FallbackOnPoorText ==
    cleaner.op = "generate_final_interpretation" =>
        LET cleaned == CleanedText(cleaner.response)
            words == Words(cleaned)
            poor == \/ CharLen(cleaned) < 50
                    \/ 10 * Cardinality(Range(words)) < 3 * Len(words)
        IN /\ poor => cleaner.returned = _get_fallback_interpretation(cleaner.session)
           /\ ~poor => cleaner.returned = cleaned
           /\ cleaner.returned # <<>>
           /\ Range(cleaner.returned) \cap Space # Range(cleaner.returned)

\* a reply long enough that repeats two words gave the fallback text
C18_Witness ==
    /\ cleaner.op = "generate_final_interpretation"
    /\ CharLen(CleanedText(cleaner.response)) >= 50
    /\ Cardinality(Range(Words(CleanedText(cleaner.response)))) = 2
    /\ cleaner.returned = _get_fallback_interpretation(cleaner.session)
    /\ cleaner.returned # CleanedText(cleaner.response)

\* C19: the fallback text, whenever it is what FinalResponse returns, holds
\* the names of the first min(3, n) of the n cards drawn
C19_FallbackNamesCards ==
    ( /\ cleaner.op = "generate_final_interpretation"
      /\ ~_validate_interpretation(CleanedText(cleaner.response)) )
        => LET cards == cleaner.session.spread_data.cards
               n == Len(cards)
           IN \A i \in 1..(IF n < 3 THEN n ELSE 3) :
                  \E k \in 1..Len(cleaner.returned) : cleaner.returned[k] = cards[i]

\* four cards drawn, the fallback text returned: it names three of them
C19_Witness ==
    /\ cleaner.op = "generate_final_interpretation"
    /\ Len(cleaner.session.spread_data.cards) = 4
    /\ cleaner.response = <<"ok">>
    /\ {cleaner.session.spread_data.cards[i] : i \in 1..3} \subseteq Range(cleaner.returned)
    /\ cleaner.session.spread_data.cards[4] \notin Range(cleaner.returned)

----------------------------------------------------------------------------
(* The selection of the cards *)

\* C20: two calls of select_cards with the same count, magic number and age
\* return the same cards in the same order, whatever was drawn from the
\* generator between them
C20_SelectDeterministic ==
    \A d1 \in selector.drawn :
        /\ \A d2 \in selector.drawn :
              ( /\ d1.count = d2.count
                /\ d1.magic_number = d2.magic_number
                /\ d1.user_age = d2.user_age ) => d1.cards = d2.cards
        /\ Len(d1.cards) = d1.count

\* arguments were repeated after other draws, by select_cards and by
\* generate_random_magic_number, had moved the generator
C20_Witness ==
    /\ selector.again
    /\ Cardinality(selector.drawn) >= 3
    /\ selector.op = "generate_random_magic_number"

\* C21: a select_cards given a count from 1 to the size of the deck and an
\* integer magic number returns exactly count cards, no two of the same name
C21_CountUniqueCards ==
    ( /\ catalog.op = "select_cards"
      /\ catalog.given.count >= 1
      /\ catalog.given.count <= Len(catalog._cards)
      /\ catalog.given.magic_number # 0 ) =>
        /\ catalog.raised = "none"
        /\ Len(catalog.returned) = catalog.given.count
        /\ \A i, j \in DOMAIN catalog.returned :
              i # j => catalog.returned[i].name # catalog.returned[j].name

\* three cards drawn for a magic number and an age
C21_Witness ==
    /\ catalog.op = "select_cards"
    /\ catalog.given.count = 3
    /\ catalog.raised = "none"
    /\ Len(catalog.returned) = 3
    /\ catalog.given.user_age = 34

\* C22: of two draws in a row with the same magic number, one without an age
\* and one with an age, or with two different ages, the seeds differ
C22_AgeChangesSeed ==
    [][ ( /\ catalog.op = "select_cards" /\ catalog.raised = "none"
          /\ catalog'.op = "select_cards" /\ catalog'.raised = "none"
          /\ catalog'.given.magic_number = catalog.given.magic_number
          /\ catalog'.given.user_age # catalog.given.user_age ) =>
            catalog'.seed # catalog.seed ]_vars

\* C23: a select_cards given a count of 0 or less, a count above the size of
\* the deck, or a magic number that is no integer raises ValueError or
\* TypeError, returns no card, and leaves the generator and the deck as
\* they were
C23_InvalidArguments ==
    [][ ( /\ catalog'.op = "select_cards"
          /\ \/ catalog'.given.count <= 0
             \/ catalog'.given.count > Len(catalog._cards)
             \/ catalog'.given.magic_number = 0 ) =>
            /\ catalog'.raised \in {"ValueError", "TypeError"}
            /\ catalog'.returned = <<>>
            /\ catalog'.shared = {}
            /\ catalog'.random = catalog.random
            /\ catalog'._cards = catalog._cards ]_vars

\* a draw of more cards than the deck has was refused, after an earlier call
\* had moved the generator
C23_Witness ==
    /\ catalog.op = "select_cards"
    /\ catalog.given.count > Len(catalog._cards)
    /\ catalog.given.magic_number # 0
    /\ catalog.raised = "ValueError"
    /\ catalog.random # 0

\* C25: select_cards leaves the generator of the process in the state it
\* found it in
C25_SelectLeavesGenerator ==
    [][ selector'.op = "select_cards" => selector'.random = selector.random ]_vars

\* C26: whatever the callers did with what they were returned, the deck
\* holds every card as it was loaded, and every lookup returns such cards
C26_CatalogAsLoaded ==
    /\ catalog._cards = LoadedCards
    /\ catalog.op \in {"cards", "get_card_by_index", "select_cards"} =>
           \A k \in DOMAIN catalog.returned :
               \E i \in DOMAIN LoadedCards : catalog.returned[k] = LoadedCards[i]

----------------------------------------------------------------------------
(* The draw of a reading *)

\* C24: the cards of every reading are those select_cards gives for the
\* magic number and the age of the user, and two chats with the same magic
\* number, age and spread hold the same cards in the same order
C24_DrawnByMagicAndAge ==
    \A c \in Chats :
        LET data == get_user_data(user_states, c)
        IN data.selected_cards # <<>> =>
              /\ data.selected_cards =
                     select_cards(Deck, Len(data.selected_cards),
                                  data.magic_number, data.age)
              /\ \A c2 \in Chats :
                    LET other == get_user_data(user_states, c2)
                    IN ( /\ other.selected_cards # <<>>
                         /\ other.magic_number = data.magic_number
                         /\ other.age = data.age
                         /\ other.spread_type = data.spread_type ) =>
                           other.selected_cards = data.selected_cards

----------------------------------------------------------------------------
(* The dialogue states *)

\* C30: a call of set_state, update_data, reset_to_idle or clear_state for
\* one chat leaves the state and the data of every other chat as they were,
\* and a chat no call was made for reads as IDLE with no data
C30_StatesIsolated ==
    /\ [][ \A c \in Chats :
              c # state_calls'.chat_id =>
                 /\ get_state(user_states', c) = get_state(user_states, c)
                 /\ get_user_data(user_states', c) = get_user_data(user_states, c) ]_vars
    /\ [](\A c \in Chats :
              c \notin state_calls.seen =>
                 /\ get_state(user_states, c) = IDLE
                 /\ get_user_data(user_states, c) = NoData)

\* data were written for one chat while another had a state and data of its
\* own
C30_Witness ==
    /\ state_calls.op = "update_data"
    /\ state_calls.seen = Chats
    /\ \E c \in Chats :
          /\ c # state_calls.chat_id
          /\ get_state(user_states, c) = WAITING_NAME
          /\ get_user_data(user_states, c).name = "Anna"
          /\ get_user_data(user_states, c).magic_number = 0

----------------------------------------------------------------------------
(* The ownership of the sessions *)

\* C27: no two chats keep sessions with the same context, and what is done
\* for one chat, a start, a stage that adds messages or letting go of the
\* session, leaves the session of every other chat and the history of its
\* context as they were
C27_SessionsOwned ==
    /\ [](\A c1, c2 \in Chats :
              ( /\ c1 # c2
                /\ readings.llm_session[c1] # 0 ) =>
                  readings.llm_session[c1] # readings.llm_session[c2])
    /\ [][ \A c \in Chats :
              ( /\ c # readings'.chat_id
                /\ readings.llm_session[c] # 0 ) =>
                  /\ readings'.llm_session[c] = readings.llm_session[c]
                  /\ readings'.contexts[readings.llm_session[c]] =
                         readings.contexts[readings.llm_session[c]] ]_vars

\* two chats in the middle of their readings, one a stage further than the
\* other, after a third session was let go of
C27_Witness ==
    /\ Len(readings.contexts) = 3
    /\ \E c1, c2 \in Chats :
          /\ readings.llm_session[c1] # 0
          /\ readings.llm_session[c2] # 0
          /\ Len(readings.contexts[readings.llm_session[c1]].messages) = 5
          /\ Len(readings.contexts[readings.llm_session[c2]].messages) = 3

----------------------------------------------------------------------------
(* The handling of the updates *)

\* C28: at no time are two handlers of the same chat at work, so a stage of
\* a chat begins only after the stage before it, retries included, has ended,
\* also when the chat sends updates while a stage waits for Transport
C28_OneStageAtATime ==
    \A h1, h2 \in application.running :
        h1.chat_id = h2.chat_id => h1 = h2

\* a chat has sent another answer while its Synthesis stage waits for
\* Transport at a later attempt
C28_Witness ==
    \E h \in application.running :
        /\ h.stage = SYNTHESIS
        /\ h.attempt > 1
        /\ \E i \in DOMAIN application.update_queue :
              /\ application.update_queue[i].chat_id = h.chat_id
              /\ application.update_queue[i].kind = "answer"

\* C29: when the next update is that of a chat other than one whose handler
\* waits for Transport, it can be handled without that handler returning
C29_NoChatBlocksAnother ==
    ( /\ application.update_queue # <<>>
      /\ \E h \in application.running :
            h.chat_id # Head(application.update_queue).chat_id ) =>
        ENABLED ProcessUpdate

\* C31: a reset_to_idle leaves its chat in IDLE, with the data it had when
\* keep_data was given, and with no data otherwise
C31_ResetToIdle ==
    [][ state_calls'.op = "reset_to_idle" =>
           /\ get_state(user_states', state_calls'.chat_id) = IDLE
           /\ get_user_data(user_states', state_calls'.chat_id) =
                  IF state_calls'.keep_data
                  THEN get_user_data(user_states, state_calls'.chat_id)
                  ELSE NoData ]_vars

\* the users file holds the users of the even ids; no call is under way
CreditsInit ==
    /\ user_states = [c \in Chats |-> [state |-> IDLE, data |-> NoData]]
    /\ users = [u \in Chats |-> IF u % 2 = 0 THEN StoredUser ELSE NoUser]
    /\ sessions = [c \in Chats |-> LLMSession]
    /\ journal = [c \in Chats |-> NoJournal]
    /\ config = [use_magic_numbers |-> FALSE]
    /\ mctx = NoContext
    /\ fixed = NoFixedSession
    /\ transport = NoTransport
    /\ extractor = NoExtractor
    /\ cleaner = NoCleaner
    /\ selector = NoSelector
    /\ catalog = NoCatalog
    /\ readings = NoReadings
    /\ application = NoApplication
    /\ state_calls = NoStateCalls
    /\ credit_calls = NoCreditCalls
    /\ feedback = NoFeedback

CreditsNext ==
    \E t \in Threads :
        \/ UseCreditCalled(t)
        \/ UseCreditLoads(t)
        \/ UseCreditRefuses(t)
        \/ UseCreditSaves(t)

CreditsSpec == CreditsInit /\ [][CreditsNext]_vars

\* a chat before its reading is delivered
FeedbackInit ==
    /\ BotAtRest
    /\ transport = NoTransport
    /\ extractor = NoExtractor
    /\ cleaner = NoCleaner
    /\ selector = NoSelector
    /\ catalog = NoCatalog
    /\ readings = NoReadings
    /\ application = NoApplication
    /\ state_calls = NoStateCalls
    /\ credit_calls = NoCreditCalls
    /\ feedback = NoFeedback

FeedbackNext ==
    \/ RequestFeedback
    \/ HandleRating
    \/ RequestComment
    \/ HandleComment
    \/ CancelFeedback

FeedbackSpec == FeedbackInit /\ [][FeedbackNext]_vars

----------------------------------------------------------------------------
(* The clarifying questions: a reading from the magic number on, the user  *)
(* answering the questions of the session with one of two texts.           *)

\* chat 1 belongs to a user who has chosen a spread and a tariff, has
\* registered and paid with a credit, and is asked for the magic number
QuestionsInit ==
    /\ \E spread_type \in Spreads, tariff \in Tariffs :
         /\ user_states = [c \in Chats |->
               IF c = 1
               THEN [state |-> WAITING_MAGIC_NUMBER,
                     data |-> [NoData EXCEPT !.spread_type = spread_type,
                                             !.tariff = tariff,
                                             !.name = StoredUser.name,
                                             !.age = StoredUser.age]]
               ELSE [state |-> IDLE, data |-> NoData]]
         /\ users = use_credit(save_user([c \in Chats |-> NoUser], 1,
                                         StoredUser.name, StoredUser.age),
                               1, tariff)
    /\ sessions = [c \in Chats |-> LLMSession]
    /\ journal = [c \in Chats |->
                    IF c = 1
                    THEN [NoJournal EXCEPT !.readings = 1, !.paid = TRUE,
                                           !.reply = "ask_magic_number"]
                    ELSE NoJournal]
    /\ config = [use_magic_numbers |-> TRUE]
    /\ mctx = NoContext
    /\ fixed = NoFixedSession
    /\ transport = NoTransport
    /\ extractor = NoExtractor
    /\ cleaner = NoCleaner
    /\ selector = NoSelector
    /\ catalog = NoCatalog
    /\ readings = NoReadings
    /\ application = NoApplication
    /\ state_calls = NoStateCalls
    /\ credit_calls = NoCreditCalls
    /\ feedback = NoFeedback

\* a text in WAITING_LLM_QUESTIONS
ClarifyingAnswerMessage(c) ==
    /\ get_state(user_states, c) = WAITING_LLM_QUESTIONS
    /\ \E user_input \in LLMAnswers :
         \E os \in Scripts :
            Becomes(process_llm_questions(Begin(c), c, user_input, os))

QuestionsNext ==
    \E c \in Chats :
        \/ MagicNumberMessage(c)
        \/ PreliminaryAnswerMessage(c)
        \/ ClarifyingAnswerMessage(c)

QuestionsSpec == QuestionsInit /\ [][QuestionsNext]_vars

----------------------------------------------------------------------------
(* The accounts: a user who writes to the bot in two chats, the private    *)
(* chat and a group.  The dialogue state is kept per chat, the stored user *)
(* and the credits per Telegram user; the steps are those of the           *)
(* registration and of the debit, with the magic numbers enabled.          *)

AccountChats == {1, 0 - 1}

AccountsInit ==
    /\ user_states = [c \in AccountChats |-> [state |-> IDLE, data |-> NoData]]
    /\ users = [u \in Chats |-> IF u % 2 = 0 THEN StoredUser ELSE NoUser]
    /\ sessions = [c \in AccountChats |-> LLMSession]
    /\ journal = [c \in AccountChats |-> NoJournal]
    /\ config = [use_magic_numbers |-> TRUE]
    /\ mctx = NoContext
    /\ fixed = NoFixedSession
    /\ transport = NoTransport
    /\ extractor = NoExtractor
    /\ cleaner = NoCleaner
    /\ selector = NoSelector
    /\ catalog = NoCatalog
    /\ readings = NoReadings
    /\ application = NoApplication
    /\ state_calls = NoStateCalls
    /\ credit_calls = NoCreditCalls
    /\ feedback = NoFeedback

\* a tariff button pressed in chat c
AccountTariffCallback(c) ==
    /\ journal[c].readings < MaxReadings
    /\ \E tariff_key \in Tariffs, spread_type \in Spreads, random_magic \in RandomMagic :
          Becomes([handle_tariff_selection(
                       Begin(c), c, tariff_key, spread_type, random_magic, NoScript)
                   EXCEPT !.journal[c].readings = @ + 1])

AccountsNext ==
    \E c \in AccountChats :
        \/ AccountTariffCallback(c)
        \/ NameMessage(c)
        \/ BirthdateMessage(c)

AccountsSpec == AccountsInit /\ [][AccountsNext]_vars

----------------------------------------------------------------------------
(* The steps of the dialogue *)

\* C32: when a name, a birth date or a magic number is answered with the
\* message of a failed validation, the state and the data of the chat and
\* the stored record of its user are what they were before the text
C32_InvalidTextChangesNothing ==
    [][ \A c \in Chats :
           journal'[c].reply \in {"name_invalid", "birthdate_invalid",
                                  "magic_number_invalid"} =>
              /\ user_states'[c] = user_states[c]
              /\ get_user(users', from_user(c)) = get_user(users, from_user(c))
              /\ sessions'[c] = sessions[c] ]_vars

\* a text that is no date was refused after a name had been taken
C32_Witness ==
    \E c \in Chats :
        /\ journal[c].reply = "birthdate_invalid"
        /\ get_state(user_states, c) = WAITING_BIRTHDATE
        /\ get_user_data(user_states, c).name = "Anna"
        /\ get_user_data(user_states, c).age = 0
        /\ ~user_exists(users, c)

\* the step is the handling of a tariff button pressed in chat c
TariffChosen(c) == journal'[c].readings = journal[c].readings + 1

\* the step is the handling of a text of chat c that was received in state st
TextIn(c, st) ==
    /\ journal'[c].readings = journal[c].readings
    /\ journal'[c] # journal[c]
    /\ journal'[c].reply # ""
    /\ journal'[c].reply # "thanks_for_feedback"
    /\ get_state(user_states, c) = st

\* the registration of C33: tariff -> name -> birth date -> magic number
Registration(c) ==
    /\ TariffChosen(c) /\ ~user_exists(users, c) =>
          get_state(user_states', c) = WAITING_NAME
    /\ TextIn(c, WAITING_NAME) /\ journal'[c].reply # "name_invalid" =>
          /\ get_state(user_states', c) = WAITING_BIRTHDATE
          /\ validate_name(get_user_data(user_states', c).name)
    /\ TextIn(c, WAITING_BIRTHDATE) /\ journal'[c].reply # "birthdate_invalid" =>
          /\ user_exists(users', c)
          /\ get_user(users', c).name = get_user_data(user_states, c).name
          /\ get_user(users', c).age = get_user_data(user_states', c).age
          /\ get_state(user_states', c) = WAITING_MAGIC_NUMBER

SelectedCards(states, c) == get_user_data(states, c).selected_cards

\* C34: an update in which the cards of a reading are selected or Transport
\* is called is handled only for a reading for which use_credit has taken a
\* credit, and an update answered with a failed debit selects no cards,
\* calls no Transport and leaves the dialogue state as it was
C34_NoReadingWithoutDebit ==
    [][ \A c \in Chats :
           /\ journal'[c] # journal[c]
              /\ \/ journal'[c].made > 0
                 \/ SelectedCards(user_states', c) # SelectedCards(user_states, c)
              => journal'[c].paid
           /\ journal'[c] # journal[c]
              /\ journal'[c].reply \in {"not_enough_credits", "credit_error"}
              => /\ get_state(user_states', c) = get_state(user_states, c)
                 /\ SelectedCards(user_states', c) = SelectedCards(user_states, c)
                 /\ sessions'[c] = sessions[c]
                 /\ journal'[c].made = 0
                 /\ users' = users ]_vars

\* a user who registered in this run has cards and a first Transport call,
\* and one beginner credit less than a new user is given
C34_Witness ==
    \E c \in Chats :
        /\ c % 2 = 1
        /\ SelectedCards(user_states, c) # <<>>
        /\ sessions[c].calls # <<>>
        /\ journal[c].paid
        /\ get_user_data(user_states, c).tariff = "beginner"
        /\ get_user_credits(users, c).beginner = InitialBeginnerCredits - 1

----------------------------------------------------------------------------
(* The clarifying questions *)

\* the text add_question_answers appends for the answers given
AnswersMessage(questions, answers) ==
    Msg("user", <<"QUESTION_ANSWERS:">> \o format_user_answers(questions, answers))

\* the step adds a Transport call of ContextAnalysis to the session of chat c
ContextAnalysisStarts(c) ==
    /\ Len(sessions'[c].calls) > Len(sessions[c].calls)
    /\ sessions'[c].calls[Len(sessions[c].calls) + 1].stage = CONTEXT_ANALYSIS

\* C38: while the clarifying questions are answered, the questions sent so
\* far are the first of the extracted questions, in their order, one more
\* than the answers given; every text is stored as the next answer;
\* ContextAnalysis is started by the text that makes the answers as many as
\* the questions and by no other; and with it the context is given the
\* questions and these answers, paired in order
C38_QuestionsAskedInOrder ==
    /\ [](\A c \in Chats :
            get_state(user_states, c) = WAITING_LLM_QUESTIONS =>
               LET d == get_user_data(user_states, c)
               IN /\ d.llm_questions = sessions[c].generated_questions
                  /\ Len(d.llm_answers) < Len(d.llm_questions)
                  /\ d.current_llm_question = Len(d.llm_answers)
                  /\ journal[c].asked = Take(d.llm_questions, Len(d.llm_answers) + 1))
    /\ [][ \A c \in Chats :
             TextIn(c, WAITING_LLM_QUESTIONS) =>
                LET d == get_user_data(user_states, c)
                    e == get_user_data(user_states', c)
                    n == Len(d.llm_questions)
                    history == get_message_history(sessions[c].context)
                IN /\ \E a \in LLMAnswers : e.llm_answers = Append(d.llm_answers, a)
                   /\ e.llm_questions = d.llm_questions
                   /\ ContextAnalysisStarts(c) <=> Len(e.llm_answers) = n
                   /\ Len(e.llm_answers) < n =>
                         /\ get_state(user_states', c) = WAITING_LLM_QUESTIONS
                         /\ sessions'[c] = sessions[c]
                   /\ Len(e.llm_answers) = n =>
                         /\ sessions'[c].question_answers = e.llm_answers
                         /\ get_message_history(sessions'[c].context)[Len(history) + 1]
                               = AnswersMessage(d.llm_questions, e.llm_answers) ]_vars

\* two questions were asked and answered with different texts, and the
\* context holds the two answers under their questions
C38_Witness ==
    \E c \in Chats :
        LET d == get_user_data(user_states, c)
        IN /\ d.llm_answers = <<"love", "work">>
           /\ journal[c].asked = d.llm_questions
           /\ Len(d.llm_questions) = 2
           /\ get_state(user_states, c) # WAITING_LLM_QUESTIONS
           /\ \E k \in DOMAIN get_message_history(sessions[c].context) :
                 get_message_history(sessions[c].context)[k]
                     = AnswersMessage(d.llm_questions, <<"love", "work">>)

\* C39: a stage whose Transport call failed has left the context of its
\* session as long as it found it
C39_FailedStageLeavesContext ==
    \A c \in Chats :
        \A k \in DOMAIN sessions[c].calls :
            ~sessions[c].calls[k].ok =>
                sessions[c].calls[k].len_after = sessions[c].calls[k].len_before

----------------------------------------------------------------------------
(* The credits *)

\* C36: once a user is stored, no step of the dialogue, in whichever chat
\* of the user, raises a credit balance of that user
C36_CreditsNeverRaised ==
    [][ \A u \in Chats :
           user_exists(users, u) =>
              \A t \in Tariffs :
                 get_user_credits(users', u)[t] <= get_user_credits(users, u)[t] ]_vars

\* the balances the users file held at the start
CreditsAtStart(u) == IF u % 2 = 0 THEN StoredUser.credits ELSE NoUser.credits

\* the calls of use_credit for user u and tariff tr that returned True
Succeeded(u, tr) ==
    { t \in Threads : /\ credit_calls[t].pc = "returned"
                      /\ credit_calls[t].returned
                      /\ credit_calls[t].user_id = u
                      /\ credit_calls[t].tariff = tr }

\* C35: when two or more calls of use_credit for one user and tariff have
\* reported success, the stored balance is lower by the number of these calls
C35_DebitsSerialized ==
    \A u \in Chats, tr \in Tariffs :
        Cardinality(Succeeded(u, tr)) >= 2 =>
            CreditsAtStart(u)[tr] - get_user_credits(users, u)[tr]
                = Cardinality(Succeeded(u, tr))

\* the call of thread t returns False in this step
ReturnsFalse(t) ==
    /\ credit_calls[t].pc # "returned"
    /\ credit_calls'[t].pc = "returned"
    /\ ~credit_calls'[t].returned

\* the users the call of thread t loaded give no credit to take: the user is
\* not stored, the tariff is none of the user's, or the balance is 0
NothingToTake(t) ==
    LET call == credit_calls[t]
    IN \/ ~user_exists(call.loaded, call.user_id)
       \/ call.tariff \notin Tariffs
       \/ get_user_credits(call.loaded, call.user_id)[call.tariff] = 0

\* C37: no stored balance is ever below 0; a use_credit for a user that is
\* not stored, for a tariff that is none, or on a balance of 0 returns False,
\* and a use_credit that returns False leaves the stored users as they were
C37_BalancesNeverNegative ==
    /\ [](\A u \in Chats, tr \in Tariffs : get_user_credits(users, u)[tr] >= 0)
    /\ [](\A t \in Threads :
             credit_calls[t].pc = "returned" /\ NothingToTake(t) =>
                ~credit_calls[t].returned)
    /\ [][ \A t \in Threads : ReturnsFalse(t) => users' = users ]_vars

\* one call took the last credit and another, which loaded the users after
\* that, was refused on the balance of 0
C37_Witness ==
    \E t1, t2 \in Threads :
        /\ credit_calls[t1].pc = "returned" /\ credit_calls[t1].returned
        /\ credit_calls[t2].pc = "returned" /\ ~credit_calls[t2].returned
        /\ credit_calls[t2].user_id = credit_calls[t1].user_id
        /\ credit_calls[t2].tariff = credit_calls[t1].tariff
        /\ get_user_credits(credit_calls[t2].loaded, credit_calls[t2].user_id)
              [credit_calls[t2].tariff] = 0
        /\ get_user_credits(users, credit_calls[t1].user_id)[credit_calls[t1].tariff] = 0

----------------------------------------------------------------------------
(* The feedback *)

\* C40: once the user has given a star rating and a comment for the reading,
\* the log record of the reading holds that rating and that comment
C40_LogHoldsRatingAndComment ==
    /\ feedback.given_rating # NoRating
    /\ feedback.given_comment # NoComment
    => /\ feedback.log.rating = feedback.given_rating
       /\ feedback.log.comment = feedback.given_comment

====
